---- MODULE Spec2Model ----
(***************************************************************************)
(* Marketing Campaign Estimator (src/app.py): the demand normalizer, the   *)
(* period filter, the estimator and the Streamlit script that drives them. *)
(*                                                                         *)
(* Text is a sequence of one-character strings; a character outside ASCII  *)
(* is written by its code point ("U+20AC" is the euro sign, "U+00E4" a     *)
(* with diaeresis).  A cell of a table, and a                              *)
(* Python value handed to or returned by a function, is a record           *)
(*     [t, s, n, d]                                                        *)
(* with t the type tag: "str" (text s), "int" (integer n), "float" (the    *)
(* finite float n/d, in lowest terms, d > 0), "inf" (sign n), "nan",       *)
(* "none" (Python None) and "raise" (an exception escaped, named by s).    *)
(* Finite floats are exact rationals: binary rounding is not modelled.     *)
(***************************************************************************)
EXTENDS Integers, Sequences, FiniteSets, TLC

VARIABLES
    call,                \* a direct call of one function: its arguments
    ret,                 \* ... and what it returned ("pending" before)
    file,                \* the uploaded table, as read by load_data
    selected_country, selected_category, campaign_filter,
    earlier_start_date, earlier_end_date,
    later_start_date, later_end_date, target_growth,
    checkbox,            \* widget state of the row checkboxes, by key
    event,               \* the interaction that started the last run
    df,                  \* the script's table after the run
    earlier_filtered, later_filtered,
    earlier_selected_df, later_selected_df,
    executed,            \* the pipeline stages the last run went through
    message              \* what the last run reported to the user

callVars == <<call, ret>>
widgetVars == <<selected_country, selected_category, campaign_filter,
                earlier_start_date, earlier_end_date,
                later_start_date, later_end_date, target_growth>>
runVars == <<df, earlier_filtered, later_filtered,
             earlier_selected_df, later_selected_df, executed, message>>
appVars == <<file, widgetVars, checkbox, event, runVars>>
vars == <<callVars, appVars>>

(***************************************************************************)
(* Python values                                                           *)
(***************************************************************************)
Cell(t, s, n, d) == [t |-> t, s |-> s, n |-> n, d |-> d]
None == Cell("none", <<>>, 0, 1)
NaN == Cell("nan", <<>>, 0, 1)
Inf(sign) == Cell("inf", <<>>, sign, 1)
Str(s) == Cell("str", s, 0, 1)
Int_(n) == Cell("int", <<>>, n, 1)
Raise(name) == Cell("raise", name, 0, 1)

Abs(n) == IF n < 0 THEN -n ELSE n
Sign(n) == IF n < 0 THEN -1 ELSE IF n = 0 THEN 0 ELSE 1

RECURSIVE Gcd(_, _)
Gcd(a, b) == IF b = 0 THEN a ELSE Gcd(b, a % b)

RECURSIVE Pow10(_)
Pow10(k) == IF k = 0 THEN 1 ELSE 10 * Pow10(k - 1)

\* The finite float n/d (d # 0), in lowest terms with a positive denominator.
Float(n, d) ==
    LET g == Gcd(Abs(n), Abs(d))
        sg == IF d < 0 THEN -1 ELSE 1
    IN  Cell("float", <<>>, sg * (n \div g), sg * (d \div g))

IsNum(v) == v.t \in {"int", "float"}

\* pandas.isna on a scalar: None and the float NaN are missing values.
isna(v) == v.t \in {"none", "nan"}

(***************************************************************************)
(* Text                                                                    *)
(***************************************************************************)
Digits == <<"0", "1", "2", "3", "4", "5", "6", "7", "8", "9">>

\* The decimal digits of Unicode (category Nd), by value: DecimalDigits[v + 1]
\* holds the characters with value v.  float() reads each as its ASCII digit.

DecimalDigits ==
    <<{"0", "U+0660", "U+06F0", "U+07C0", "U+0966", "U+09E6", "U+0A66",
       "U+0AE6", "U+0B66", "U+0BE6", "U+0C66", "U+0CE6", "U+0D66", "U+0DE6",
       "U+0E50", "U+0ED0", "U+0F20", "U+1040", "U+1090", "U+17E0", "U+1810",
       "U+1946", "U+19D0", "U+1A80", "U+1A90", "U+1B50", "U+1BB0", "U+1C40",
       "U+1C50", "U+A620", "U+A8D0", "U+A900", "U+A9D0", "U+A9F0", "U+AA50",
       "U+ABF0", "U+FF10", "U+104A0", "U+10D30", "U+11066", "U+110F0",
       "U+11136", "U+111D0", "U+112F0", "U+11450", "U+114D0", "U+11650",
       "U+116C0", "U+11730", "U+118E0", "U+11950", "U+11C50", "U+11D50",
       "U+11DA0", "U+16A60", "U+16AC0", "U+16B50", "U+1D7CE", "U+1D7D8",
       "U+1D7E2", "U+1D7EC", "U+1D7F6", "U+1E140", "U+1E2F0", "U+1E950",
       "U+1FBF0"},
      {"1", "U+0661", "U+06F1", "U+07C1", "U+0967", "U+09E7", "U+0A67",
       "U+0AE7", "U+0B67", "U+0BE7", "U+0C67", "U+0CE7", "U+0D67", "U+0DE7",
       "U+0E51", "U+0ED1", "U+0F21", "U+1041", "U+1091", "U+17E1", "U+1811",
       "U+1947", "U+19D1", "U+1A81", "U+1A91", "U+1B51", "U+1BB1", "U+1C41",
       "U+1C51", "U+A621", "U+A8D1", "U+A901", "U+A9D1", "U+A9F1", "U+AA51",
       "U+ABF1", "U+FF11", "U+104A1", "U+10D31", "U+11067", "U+110F1",
       "U+11137", "U+111D1", "U+112F1", "U+11451", "U+114D1", "U+11651",
       "U+116C1", "U+11731", "U+118E1", "U+11951", "U+11C51", "U+11D51",
       "U+11DA1", "U+16A61", "U+16AC1", "U+16B51", "U+1D7CF", "U+1D7D9",
       "U+1D7E3", "U+1D7ED", "U+1D7F7", "U+1E141", "U+1E2F1", "U+1E951",
       "U+1FBF1"},
      {"2", "U+0662", "U+06F2", "U+07C2", "U+0968", "U+09E8", "U+0A68",
       "U+0AE8", "U+0B68", "U+0BE8", "U+0C68", "U+0CE8", "U+0D68", "U+0DE8",
       "U+0E52", "U+0ED2", "U+0F22", "U+1042", "U+1092", "U+17E2", "U+1812",
       "U+1948", "U+19D2", "U+1A82", "U+1A92", "U+1B52", "U+1BB2", "U+1C42",
       "U+1C52", "U+A622", "U+A8D2", "U+A902", "U+A9D2", "U+A9F2", "U+AA52",
       "U+ABF2", "U+FF12", "U+104A2", "U+10D32", "U+11068", "U+110F2",
       "U+11138", "U+111D2", "U+112F2", "U+11452", "U+114D2", "U+11652",
       "U+116C2", "U+11732", "U+118E2", "U+11952", "U+11C52", "U+11D52",
       "U+11DA2", "U+16A62", "U+16AC2", "U+16B52", "U+1D7D0", "U+1D7DA",
       "U+1D7E4", "U+1D7EE", "U+1D7F8", "U+1E142", "U+1E2F2", "U+1E952",
       "U+1FBF2"},
      {"3", "U+0663", "U+06F3", "U+07C3", "U+0969", "U+09E9", "U+0A69",
       "U+0AE9", "U+0B69", "U+0BE9", "U+0C69", "U+0CE9", "U+0D69", "U+0DE9",
       "U+0E53", "U+0ED3", "U+0F23", "U+1043", "U+1093", "U+17E3", "U+1813",
       "U+1949", "U+19D3", "U+1A83", "U+1A93", "U+1B53", "U+1BB3", "U+1C43",
       "U+1C53", "U+A623", "U+A8D3", "U+A903", "U+A9D3", "U+A9F3", "U+AA53",
       "U+ABF3", "U+FF13", "U+104A3", "U+10D33", "U+11069", "U+110F3",
       "U+11139", "U+111D3", "U+112F3", "U+11453", "U+114D3", "U+11653",
       "U+116C3", "U+11733", "U+118E3", "U+11953", "U+11C53", "U+11D53",
       "U+11DA3", "U+16A63", "U+16AC3", "U+16B53", "U+1D7D1", "U+1D7DB",
       "U+1D7E5", "U+1D7EF", "U+1D7F9", "U+1E143", "U+1E2F3", "U+1E953",
       "U+1FBF3"},
      {"4", "U+0664", "U+06F4", "U+07C4", "U+096A", "U+09EA", "U+0A6A",
       "U+0AEA", "U+0B6A", "U+0BEA", "U+0C6A", "U+0CEA", "U+0D6A", "U+0DEA",
       "U+0E54", "U+0ED4", "U+0F24", "U+1044", "U+1094", "U+17E4", "U+1814",
       "U+194A", "U+19D4", "U+1A84", "U+1A94", "U+1B54", "U+1BB4", "U+1C44",
       "U+1C54", "U+A624", "U+A8D4", "U+A904", "U+A9D4", "U+A9F4", "U+AA54",
       "U+ABF4", "U+FF14", "U+104A4", "U+10D34", "U+1106A", "U+110F4",
       "U+1113A", "U+111D4", "U+112F4", "U+11454", "U+114D4", "U+11654",
       "U+116C4", "U+11734", "U+118E4", "U+11954", "U+11C54", "U+11D54",
       "U+11DA4", "U+16A64", "U+16AC4", "U+16B54", "U+1D7D2", "U+1D7DC",
       "U+1D7E6", "U+1D7F0", "U+1D7FA", "U+1E144", "U+1E2F4", "U+1E954",
       "U+1FBF4"},
      {"5", "U+0665", "U+06F5", "U+07C5", "U+096B", "U+09EB", "U+0A6B",
       "U+0AEB", "U+0B6B", "U+0BEB", "U+0C6B", "U+0CEB", "U+0D6B", "U+0DEB",
       "U+0E55", "U+0ED5", "U+0F25", "U+1045", "U+1095", "U+17E5", "U+1815",
       "U+194B", "U+19D5", "U+1A85", "U+1A95", "U+1B55", "U+1BB5", "U+1C45",
       "U+1C55", "U+A625", "U+A8D5", "U+A905", "U+A9D5", "U+A9F5", "U+AA55",
       "U+ABF5", "U+FF15", "U+104A5", "U+10D35", "U+1106B", "U+110F5",
       "U+1113B", "U+111D5", "U+112F5", "U+11455", "U+114D5", "U+11655",
       "U+116C5", "U+11735", "U+118E5", "U+11955", "U+11C55", "U+11D55",
       "U+11DA5", "U+16A65", "U+16AC5", "U+16B55", "U+1D7D3", "U+1D7DD",
       "U+1D7E7", "U+1D7F1", "U+1D7FB", "U+1E145", "U+1E2F5", "U+1E955",
       "U+1FBF5"},
      {"6", "U+0666", "U+06F6", "U+07C6", "U+096C", "U+09EC", "U+0A6C",
       "U+0AEC", "U+0B6C", "U+0BEC", "U+0C6C", "U+0CEC", "U+0D6C", "U+0DEC",
       "U+0E56", "U+0ED6", "U+0F26", "U+1046", "U+1096", "U+17E6", "U+1816",
       "U+194C", "U+19D6", "U+1A86", "U+1A96", "U+1B56", "U+1BB6", "U+1C46",
       "U+1C56", "U+A626", "U+A8D6", "U+A906", "U+A9D6", "U+A9F6", "U+AA56",
       "U+ABF6", "U+FF16", "U+104A6", "U+10D36", "U+1106C", "U+110F6",
       "U+1113C", "U+111D6", "U+112F6", "U+11456", "U+114D6", "U+11656",
       "U+116C6", "U+11736", "U+118E6", "U+11956", "U+11C56", "U+11D56",
       "U+11DA6", "U+16A66", "U+16AC6", "U+16B56", "U+1D7D4", "U+1D7DE",
       "U+1D7E8", "U+1D7F2", "U+1D7FC", "U+1E146", "U+1E2F6", "U+1E956",
       "U+1FBF6"},
      {"7", "U+0667", "U+06F7", "U+07C7", "U+096D", "U+09ED", "U+0A6D",
       "U+0AED", "U+0B6D", "U+0BED", "U+0C6D", "U+0CED", "U+0D6D", "U+0DED",
       "U+0E57", "U+0ED7", "U+0F27", "U+1047", "U+1097", "U+17E7", "U+1817",
       "U+194D", "U+19D7", "U+1A87", "U+1A97", "U+1B57", "U+1BB7", "U+1C47",
       "U+1C57", "U+A627", "U+A8D7", "U+A907", "U+A9D7", "U+A9F7", "U+AA57",
       "U+ABF7", "U+FF17", "U+104A7", "U+10D37", "U+1106D", "U+110F7",
       "U+1113D", "U+111D7", "U+112F7", "U+11457", "U+114D7", "U+11657",
       "U+116C7", "U+11737", "U+118E7", "U+11957", "U+11C57", "U+11D57",
       "U+11DA7", "U+16A67", "U+16AC7", "U+16B57", "U+1D7D5", "U+1D7DF",
       "U+1D7E9", "U+1D7F3", "U+1D7FD", "U+1E147", "U+1E2F7", "U+1E957",
       "U+1FBF7"},
      {"8", "U+0668", "U+06F8", "U+07C8", "U+096E", "U+09EE", "U+0A6E",
       "U+0AEE", "U+0B6E", "U+0BEE", "U+0C6E", "U+0CEE", "U+0D6E", "U+0DEE",
       "U+0E58", "U+0ED8", "U+0F28", "U+1048", "U+1098", "U+17E8", "U+1818",
       "U+194E", "U+19D8", "U+1A88", "U+1A98", "U+1B58", "U+1BB8", "U+1C48",
       "U+1C58", "U+A628", "U+A8D8", "U+A908", "U+A9D8", "U+A9F8", "U+AA58",
       "U+ABF8", "U+FF18", "U+104A8", "U+10D38", "U+1106E", "U+110F8",
       "U+1113E", "U+111D8", "U+112F8", "U+11458", "U+114D8", "U+11658",
       "U+116C8", "U+11738", "U+118E8", "U+11958", "U+11C58", "U+11D58",
       "U+11DA8", "U+16A68", "U+16AC8", "U+16B58", "U+1D7D6", "U+1D7E0",
       "U+1D7EA", "U+1D7F4", "U+1D7FE", "U+1E148", "U+1E2F8", "U+1E958",
       "U+1FBF8"},
      {"9", "U+0669", "U+06F9", "U+07C9", "U+096F", "U+09EF", "U+0A6F",
       "U+0AEF", "U+0B6F", "U+0BEF", "U+0C6F", "U+0CEF", "U+0D6F", "U+0DEF",
       "U+0E59", "U+0ED9", "U+0F29", "U+1049", "U+1099", "U+17E9", "U+1819",
       "U+194F", "U+19D9", "U+1A89", "U+1A99", "U+1B59", "U+1BB9", "U+1C49",
       "U+1C59", "U+A629", "U+A8D9", "U+A909", "U+A9D9", "U+A9F9", "U+AA59",
       "U+ABF9", "U+FF19", "U+104A9", "U+10D39", "U+1106F", "U+110F9",
       "U+1113F", "U+111D9", "U+112F9", "U+11459", "U+114D9", "U+11659",
       "U+116C9", "U+11739", "U+118E9", "U+11959", "U+11C59", "U+11D59",
       "U+11DA9", "U+16A69", "U+16AC9", "U+16B59", "U+1D7D7", "U+1D7E1",
       "U+1D7EB", "U+1D7F5", "U+1D7FF", "U+1E149", "U+1E2F9", "U+1E959",
       "U+1FBF9"}>>

\* re.IGNORECASE on text patterns: the characters that match one another
\* without regard to case.  The table lists, two by two, such a character and
\* the one that stands for its class (its lower-case form).  A character not
\* listed matches itself only.
IgnoreCaseTable ==
    <<"A", "a", "B", "b", "C", "c", "D", "d", "E", "e", "F", "f", "G", "g",
      "H", "h", "I", "i", "J", "j", "K", "k", "L", "l", "M", "m", "N", "n",
      "O", "o", "P", "p", "Q", "q", "R", "r", "S", "s", "T", "t", "U", "u",
      "V", "v", "W", "w", "X", "x", "Y", "y", "Z", "z", "U+00C0", "U+00E0",
      "U+00C1", "U+00E1", "U+00C2", "U+00E2", "U+00C3", "U+00E3",
      "U+00C4", "U+00E4", "U+00C5", "U+00E5", "U+00C6", "U+00E6",
      "U+00C7", "U+00E7", "U+00C8", "U+00E8", "U+00C9", "U+00E9",
      "U+00CA", "U+00EA", "U+00CB", "U+00EB", "U+00CC", "U+00EC",
      "U+00CD", "U+00ED", "U+00CE", "U+00EE", "U+00CF", "U+00EF",
      "U+00D0", "U+00F0", "U+00D1", "U+00F1", "U+00D2", "U+00F2",
      "U+00D3", "U+00F3", "U+00D4", "U+00F4", "U+00D5", "U+00F5",
      "U+00D6", "U+00F6", "U+00D8", "U+00F8", "U+00D9", "U+00F9",
      "U+00DA", "U+00FA", "U+00DB", "U+00FB", "U+00DC", "U+00FC",
      "U+00DD", "U+00FD", "U+00DE", "U+00FE", "U+0100", "U+0101",
      "U+0102", "U+0103", "U+0104", "U+0105", "U+0106", "U+0107",
      "U+0108", "U+0109", "U+010A", "U+010B", "U+010C", "U+010D",
      "U+010E", "U+010F", "U+0110", "U+0111", "U+0112", "U+0113",
      "U+0114", "U+0115", "U+0116", "U+0117", "U+0118", "U+0119",
      "U+011A", "U+011B", "U+011C", "U+011D", "U+011E", "U+011F",
      "U+0120", "U+0121", "U+0122", "U+0123", "U+0124", "U+0125",
      "U+0126", "U+0127", "U+0128", "U+0129", "U+012A", "U+012B",
      "U+012C", "U+012D", "U+012E", "U+012F", "U+0130", "i", "U+0131", "i",
      "U+0132", "U+0133", "U+0134", "U+0135", "U+0136", "U+0137",
      "U+0139", "U+013A", "U+013B", "U+013C", "U+013D", "U+013E",
      "U+013F", "U+0140", "U+0141", "U+0142", "U+0143", "U+0144",
      "U+0145", "U+0146", "U+0147", "U+0148", "U+014A", "U+014B",
      "U+014C", "U+014D", "U+014E", "U+014F", "U+0150", "U+0151",
      "U+0152", "U+0153", "U+0154", "U+0155", "U+0156", "U+0157",
      "U+0158", "U+0159", "U+015A", "U+015B", "U+015C", "U+015D",
      "U+015E", "U+015F", "U+0160", "U+0161", "U+0162", "U+0163",
      "U+0164", "U+0165", "U+0166", "U+0167", "U+0168", "U+0169",
      "U+016A", "U+016B", "U+016C", "U+016D", "U+016E", "U+016F",
      "U+0170", "U+0171", "U+0172", "U+0173", "U+0174", "U+0175",
      "U+0176", "U+0177", "U+0178", "U+00FF", "U+0179", "U+017A",
      "U+017B", "U+017C", "U+017D", "U+017E", "U+017F", "s",
      "U+0181", "U+0253", "U+0182", "U+0183", "U+0184", "U+0185",
      "U+0186", "U+0254", "U+0187", "U+0188", "U+0189", "U+0256",
      "U+018A", "U+0257", "U+018B", "U+018C", "U+018E", "U+01DD",
      "U+018F", "U+0259", "U+0190", "U+025B", "U+0191", "U+0192",
      "U+0193", "U+0260", "U+0194", "U+0263", "U+0196", "U+0269",
      "U+0197", "U+0268", "U+0198", "U+0199", "U+019C", "U+026F",
      "U+019D", "U+0272", "U+019F", "U+0275", "U+01A0", "U+01A1",
      "U+01A2", "U+01A3", "U+01A4", "U+01A5", "U+01A6", "U+0280",
      "U+01A7", "U+01A8", "U+01A9", "U+0283", "U+01AC", "U+01AD",
      "U+01AE", "U+0288", "U+01AF", "U+01B0", "U+01B1", "U+028A",
      "U+01B2", "U+028B", "U+01B3", "U+01B4", "U+01B5", "U+01B6",
      "U+01B7", "U+0292", "U+01B8", "U+01B9", "U+01BC", "U+01BD",
      "U+01C4", "U+01C6", "U+01C5", "U+01C6", "U+01C7", "U+01C9",
      "U+01C8", "U+01C9", "U+01CA", "U+01CC", "U+01CB", "U+01CC",
      "U+01CD", "U+01CE", "U+01CF", "U+01D0", "U+01D1", "U+01D2",
      "U+01D3", "U+01D4", "U+01D5", "U+01D6", "U+01D7", "U+01D8",
      "U+01D9", "U+01DA", "U+01DB", "U+01DC", "U+01DE", "U+01DF",
      "U+01E0", "U+01E1", "U+01E2", "U+01E3", "U+01E4", "U+01E5",
      "U+01E6", "U+01E7", "U+01E8", "U+01E9", "U+01EA", "U+01EB",
      "U+01EC", "U+01ED", "U+01EE", "U+01EF", "U+01F1", "U+01F3",
      "U+01F2", "U+01F3", "U+01F4", "U+01F5", "U+01F6", "U+0195",
      "U+01F7", "U+01BF", "U+01F8", "U+01F9", "U+01FA", "U+01FB",
      "U+01FC", "U+01FD", "U+01FE", "U+01FF", "U+0200", "U+0201",
      "U+0202", "U+0203", "U+0204", "U+0205", "U+0206", "U+0207",
      "U+0208", "U+0209", "U+020A", "U+020B", "U+020C", "U+020D",
      "U+020E", "U+020F", "U+0210", "U+0211", "U+0212", "U+0213",
      "U+0214", "U+0215", "U+0216", "U+0217", "U+0218", "U+0219",
      "U+021A", "U+021B", "U+021C", "U+021D", "U+021E", "U+021F",
      "U+0220", "U+019E", "U+0222", "U+0223", "U+0224", "U+0225",
      "U+0226", "U+0227", "U+0228", "U+0229", "U+022A", "U+022B",
      "U+022C", "U+022D", "U+022E", "U+022F", "U+0230", "U+0231",
      "U+0232", "U+0233", "U+023A", "U+2C65", "U+023B", "U+023C",
      "U+023D", "U+019A", "U+023E", "U+2C66", "U+0241", "U+0242",
      "U+0243", "U+0180", "U+0244", "U+0289", "U+0245", "U+028C",
      "U+0246", "U+0247", "U+0248", "U+0249", "U+024A", "U+024B",
      "U+024C", "U+024D", "U+024E", "U+024F", "U+0370", "U+0371",
      "U+0372", "U+0373", "U+0376", "U+0377", "U+037F", "U+03F3",
      "U+0386", "U+03AC", "U+0388", "U+03AD", "U+0389", "U+03AE",
      "U+038A", "U+03AF", "U+038C", "U+03CC", "U+038E", "U+03CD",
      "U+038F", "U+03CE", "U+0391", "U+03B1", "U+0392", "U+03B2",
      "U+0393", "U+03B3", "U+0394", "U+03B4", "U+0395", "U+03B5",
      "U+0396", "U+03B6", "U+0397", "U+03B7", "U+0398", "U+03B8",
      "U+0399", "U+0345", "U+039A", "U+03BA", "U+039B", "U+03BB",
      "U+039C", "U+00B5", "U+039D", "U+03BD", "U+039E", "U+03BE",
      "U+039F", "U+03BF", "U+03A0", "U+03C0", "U+03A1", "U+03C1",
      "U+03A3", "U+03C2", "U+03A4", "U+03C4", "U+03A5", "U+03C5",
      "U+03A6", "U+03C6", "U+03A7", "U+03C7", "U+03A8", "U+03C8",
      "U+03A9", "U+03C9", "U+03AA", "U+03CA", "U+03AB", "U+03CB",
      "U+03B9", "U+0345", "U+03BC", "U+00B5", "U+03C3", "U+03C2",
      "U+03CF", "U+03D7", "U+03D0", "U+03B2", "U+03D1", "U+03B8",
      "U+03D5", "U+03C6", "U+03D6", "U+03C0", "U+03D8", "U+03D9",
      "U+03DA", "U+03DB", "U+03DC", "U+03DD", "U+03DE", "U+03DF",
      "U+03E0", "U+03E1", "U+03E2", "U+03E3", "U+03E4", "U+03E5",
      "U+03E6", "U+03E7", "U+03E8", "U+03E9", "U+03EA", "U+03EB",
      "U+03EC", "U+03ED", "U+03EE", "U+03EF", "U+03F0", "U+03BA",
      "U+03F1", "U+03C1", "U+03F4", "U+03B8", "U+03F5", "U+03B5",
      "U+03F7", "U+03F8", "U+03F9", "U+03F2", "U+03FA", "U+03FB",
      "U+03FD", "U+037B", "U+03FE", "U+037C", "U+03FF", "U+037D",
      "U+0400", "U+0450", "U+0401", "U+0451", "U+0402", "U+0452",
      "U+0403", "U+0453", "U+0404", "U+0454", "U+0405", "U+0455",
      "U+0406", "U+0456", "U+0407", "U+0457", "U+0408", "U+0458",
      "U+0409", "U+0459", "U+040A", "U+045A", "U+040B", "U+045B",
      "U+040C", "U+045C", "U+040D", "U+045D", "U+040E", "U+045E",
      "U+040F", "U+045F", "U+0410", "U+0430", "U+0411", "U+0431",
      "U+0412", "U+0432", "U+0413", "U+0433", "U+0414", "U+0434",
      "U+0415", "U+0435", "U+0416", "U+0436", "U+0417", "U+0437",
      "U+0418", "U+0438", "U+0419", "U+0439", "U+041A", "U+043A",
      "U+041B", "U+043B", "U+041C", "U+043C", "U+041D", "U+043D",
      "U+041E", "U+043E", "U+041F", "U+043F", "U+0420", "U+0440",
      "U+0421", "U+0441", "U+0422", "U+0442", "U+0423", "U+0443",
      "U+0424", "U+0444", "U+0425", "U+0445", "U+0426", "U+0446",
      "U+0427", "U+0447", "U+0428", "U+0448", "U+0429", "U+0449",
      "U+042A", "U+044A", "U+042B", "U+044B", "U+042C", "U+044C",
      "U+042D", "U+044D", "U+042E", "U+044E", "U+042F", "U+044F",
      "U+0460", "U+0461", "U+0462", "U+0463", "U+0464", "U+0465",
      "U+0466", "U+0467", "U+0468", "U+0469", "U+046A", "U+046B",
      "U+046C", "U+046D", "U+046E", "U+046F", "U+0470", "U+0471",
      "U+0472", "U+0473", "U+0474", "U+0475", "U+0476", "U+0477",
      "U+0478", "U+0479", "U+047A", "U+047B", "U+047C", "U+047D",
      "U+047E", "U+047F", "U+0480", "U+0481", "U+048A", "U+048B",
      "U+048C", "U+048D", "U+048E", "U+048F", "U+0490", "U+0491",
      "U+0492", "U+0493", "U+0494", "U+0495", "U+0496", "U+0497",
      "U+0498", "U+0499", "U+049A", "U+049B", "U+049C", "U+049D",
      "U+049E", "U+049F", "U+04A0", "U+04A1", "U+04A2", "U+04A3",
      "U+04A4", "U+04A5", "U+04A6", "U+04A7", "U+04A8", "U+04A9",
      "U+04AA", "U+04AB", "U+04AC", "U+04AD", "U+04AE", "U+04AF",
      "U+04B0", "U+04B1", "U+04B2", "U+04B3", "U+04B4", "U+04B5",
      "U+04B6", "U+04B7", "U+04B8", "U+04B9", "U+04BA", "U+04BB",
      "U+04BC", "U+04BD", "U+04BE", "U+04BF", "U+04C0", "U+04CF",
      "U+04C1", "U+04C2", "U+04C3", "U+04C4", "U+04C5", "U+04C6",
      "U+04C7", "U+04C8", "U+04C9", "U+04CA", "U+04CB", "U+04CC",
      "U+04CD", "U+04CE", "U+04D0", "U+04D1", "U+04D2", "U+04D3",
      "U+04D4", "U+04D5", "U+04D6", "U+04D7", "U+04D8", "U+04D9",
      "U+04DA", "U+04DB", "U+04DC", "U+04DD", "U+04DE", "U+04DF",
      "U+04E0", "U+04E1", "U+04E2", "U+04E3", "U+04E4", "U+04E5",
      "U+04E6", "U+04E7", "U+04E8", "U+04E9", "U+04EA", "U+04EB",
      "U+04EC", "U+04ED", "U+04EE", "U+04EF", "U+04F0", "U+04F1",
      "U+04F2", "U+04F3", "U+04F4", "U+04F5", "U+04F6", "U+04F7",
      "U+04F8", "U+04F9", "U+04FA", "U+04FB", "U+04FC", "U+04FD",
      "U+04FE", "U+04FF", "U+0500", "U+0501", "U+0502", "U+0503",
      "U+0504", "U+0505", "U+0506", "U+0507", "U+0508", "U+0509",
      "U+050A", "U+050B", "U+050C", "U+050D", "U+050E", "U+050F",
      "U+0510", "U+0511", "U+0512", "U+0513", "U+0514", "U+0515",
      "U+0516", "U+0517", "U+0518", "U+0519", "U+051A", "U+051B",
      "U+051C", "U+051D", "U+051E", "U+051F", "U+0520", "U+0521",
      "U+0522", "U+0523", "U+0524", "U+0525", "U+0526", "U+0527",
      "U+0528", "U+0529", "U+052A", "U+052B", "U+052C", "U+052D",
      "U+052E", "U+052F", "U+0531", "U+0561", "U+0532", "U+0562",
      "U+0533", "U+0563", "U+0534", "U+0564", "U+0535", "U+0565",
      "U+0536", "U+0566", "U+0537", "U+0567", "U+0538", "U+0568",
      "U+0539", "U+0569", "U+053A", "U+056A", "U+053B", "U+056B",
      "U+053C", "U+056C", "U+053D", "U+056D", "U+053E", "U+056E",
      "U+053F", "U+056F", "U+0540", "U+0570", "U+0541", "U+0571",
      "U+0542", "U+0572", "U+0543", "U+0573", "U+0544", "U+0574",
      "U+0545", "U+0575", "U+0546", "U+0576", "U+0547", "U+0577",
      "U+0548", "U+0578", "U+0549", "U+0579", "U+054A", "U+057A",
      "U+054B", "U+057B", "U+054C", "U+057C", "U+054D", "U+057D",
      "U+054E", "U+057E", "U+054F", "U+057F", "U+0550", "U+0580",
      "U+0551", "U+0581", "U+0552", "U+0582", "U+0553", "U+0583",
      "U+0554", "U+0584", "U+0555", "U+0585", "U+0556", "U+0586",
      "U+10A0", "U+2D00", "U+10A1", "U+2D01", "U+10A2", "U+2D02",
      "U+10A3", "U+2D03", "U+10A4", "U+2D04", "U+10A5", "U+2D05",
      "U+10A6", "U+2D06", "U+10A7", "U+2D07", "U+10A8", "U+2D08",
      "U+10A9", "U+2D09", "U+10AA", "U+2D0A", "U+10AB", "U+2D0B",
      "U+10AC", "U+2D0C", "U+10AD", "U+2D0D", "U+10AE", "U+2D0E",
      "U+10AF", "U+2D0F", "U+10B0", "U+2D10", "U+10B1", "U+2D11",
      "U+10B2", "U+2D12", "U+10B3", "U+2D13", "U+10B4", "U+2D14",
      "U+10B5", "U+2D15", "U+10B6", "U+2D16", "U+10B7", "U+2D17",
      "U+10B8", "U+2D18", "U+10B9", "U+2D19", "U+10BA", "U+2D1A",
      "U+10BB", "U+2D1B", "U+10BC", "U+2D1C", "U+10BD", "U+2D1D",
      "U+10BE", "U+2D1E", "U+10BF", "U+2D1F", "U+10C0", "U+2D20",
      "U+10C1", "U+2D21", "U+10C2", "U+2D22", "U+10C3", "U+2D23",
      "U+10C4", "U+2D24", "U+10C5", "U+2D25", "U+10C7", "U+2D27",
      "U+10CD", "U+2D2D", "U+13A0", "U+AB70", "U+13A1", "U+AB71",
      "U+13A2", "U+AB72", "U+13A3", "U+AB73", "U+13A4", "U+AB74",
      "U+13A5", "U+AB75", "U+13A6", "U+AB76", "U+13A7", "U+AB77",
      "U+13A8", "U+AB78", "U+13A9", "U+AB79", "U+13AA", "U+AB7A",
      "U+13AB", "U+AB7B", "U+13AC", "U+AB7C", "U+13AD", "U+AB7D",
      "U+13AE", "U+AB7E", "U+13AF", "U+AB7F", "U+13B0", "U+AB80",
      "U+13B1", "U+AB81", "U+13B2", "U+AB82", "U+13B3", "U+AB83",
      "U+13B4", "U+AB84", "U+13B5", "U+AB85", "U+13B6", "U+AB86",
      "U+13B7", "U+AB87", "U+13B8", "U+AB88", "U+13B9", "U+AB89",
      "U+13BA", "U+AB8A", "U+13BB", "U+AB8B", "U+13BC", "U+AB8C",
      "U+13BD", "U+AB8D", "U+13BE", "U+AB8E", "U+13BF", "U+AB8F",
      "U+13C0", "U+AB90", "U+13C1", "U+AB91", "U+13C2", "U+AB92",
      "U+13C3", "U+AB93", "U+13C4", "U+AB94", "U+13C5", "U+AB95",
      "U+13C6", "U+AB96", "U+13C7", "U+AB97", "U+13C8", "U+AB98",
      "U+13C9", "U+AB99", "U+13CA", "U+AB9A", "U+13CB", "U+AB9B",
      "U+13CC", "U+AB9C", "U+13CD", "U+AB9D", "U+13CE", "U+AB9E",
      "U+13CF", "U+AB9F", "U+13D0", "U+ABA0", "U+13D1", "U+ABA1",
      "U+13D2", "U+ABA2", "U+13D3", "U+ABA3", "U+13D4", "U+ABA4",
      "U+13D5", "U+ABA5", "U+13D6", "U+ABA6", "U+13D7", "U+ABA7",
      "U+13D8", "U+ABA8", "U+13D9", "U+ABA9", "U+13DA", "U+ABAA",
      "U+13DB", "U+ABAB", "U+13DC", "U+ABAC", "U+13DD", "U+ABAD",
      "U+13DE", "U+ABAE", "U+13DF", "U+ABAF", "U+13E0", "U+ABB0",
      "U+13E1", "U+ABB1", "U+13E2", "U+ABB2", "U+13E3", "U+ABB3",
      "U+13E4", "U+ABB4", "U+13E5", "U+ABB5", "U+13E6", "U+ABB6",
      "U+13E7", "U+ABB7", "U+13E8", "U+ABB8", "U+13E9", "U+ABB9",
      "U+13EA", "U+ABBA", "U+13EB", "U+ABBB", "U+13EC", "U+ABBC",
      "U+13ED", "U+ABBD", "U+13EE", "U+ABBE", "U+13EF", "U+ABBF",
      "U+13F0", "U+13F8", "U+13F1", "U+13F9", "U+13F2", "U+13FA",
      "U+13F3", "U+13FB", "U+13F4", "U+13FC", "U+13F5", "U+13FD",
      "U+1C80", "U+0432", "U+1C81", "U+0434", "U+1C82", "U+043E",
      "U+1C83", "U+0441", "U+1C84", "U+0442", "U+1C85", "U+0442",
      "U+1C86", "U+044A", "U+1C87", "U+0463", "U+1C90", "U+10D0",
      "U+1C91", "U+10D1", "U+1C92", "U+10D2", "U+1C93", "U+10D3",
      "U+1C94", "U+10D4", "U+1C95", "U+10D5", "U+1C96", "U+10D6",
      "U+1C97", "U+10D7", "U+1C98", "U+10D8", "U+1C99", "U+10D9",
      "U+1C9A", "U+10DA", "U+1C9B", "U+10DB", "U+1C9C", "U+10DC",
      "U+1C9D", "U+10DD", "U+1C9E", "U+10DE", "U+1C9F", "U+10DF",
      "U+1CA0", "U+10E0", "U+1CA1", "U+10E1", "U+1CA2", "U+10E2",
      "U+1CA3", "U+10E3", "U+1CA4", "U+10E4", "U+1CA5", "U+10E5",
      "U+1CA6", "U+10E6", "U+1CA7", "U+10E7", "U+1CA8", "U+10E8",
      "U+1CA9", "U+10E9", "U+1CAA", "U+10EA", "U+1CAB", "U+10EB",
      "U+1CAC", "U+10EC", "U+1CAD", "U+10ED", "U+1CAE", "U+10EE",
      "U+1CAF", "U+10EF", "U+1CB0", "U+10F0", "U+1CB1", "U+10F1",
      "U+1CB2", "U+10F2", "U+1CB3", "U+10F3", "U+1CB4", "U+10F4",
      "U+1CB5", "U+10F5", "U+1CB6", "U+10F6", "U+1CB7", "U+10F7",
      "U+1CB8", "U+10F8", "U+1CB9", "U+10F9", "U+1CBA", "U+10FA",
      "U+1CBD", "U+10FD", "U+1CBE", "U+10FE", "U+1CBF", "U+10FF",
      "U+1E00", "U+1E01", "U+1E02", "U+1E03", "U+1E04", "U+1E05",
      "U+1E06", "U+1E07", "U+1E08", "U+1E09", "U+1E0A", "U+1E0B",
      "U+1E0C", "U+1E0D", "U+1E0E", "U+1E0F", "U+1E10", "U+1E11",
      "U+1E12", "U+1E13", "U+1E14", "U+1E15", "U+1E16", "U+1E17",
      "U+1E18", "U+1E19", "U+1E1A", "U+1E1B", "U+1E1C", "U+1E1D",
      "U+1E1E", "U+1E1F", "U+1E20", "U+1E21", "U+1E22", "U+1E23",
      "U+1E24", "U+1E25", "U+1E26", "U+1E27", "U+1E28", "U+1E29",
      "U+1E2A", "U+1E2B", "U+1E2C", "U+1E2D", "U+1E2E", "U+1E2F",
      "U+1E30", "U+1E31", "U+1E32", "U+1E33", "U+1E34", "U+1E35",
      "U+1E36", "U+1E37", "U+1E38", "U+1E39", "U+1E3A", "U+1E3B",
      "U+1E3C", "U+1E3D", "U+1E3E", "U+1E3F", "U+1E40", "U+1E41",
      "U+1E42", "U+1E43", "U+1E44", "U+1E45", "U+1E46", "U+1E47",
      "U+1E48", "U+1E49", "U+1E4A", "U+1E4B", "U+1E4C", "U+1E4D",
      "U+1E4E", "U+1E4F", "U+1E50", "U+1E51", "U+1E52", "U+1E53",
      "U+1E54", "U+1E55", "U+1E56", "U+1E57", "U+1E58", "U+1E59",
      "U+1E5A", "U+1E5B", "U+1E5C", "U+1E5D", "U+1E5E", "U+1E5F",
      "U+1E60", "U+1E61", "U+1E62", "U+1E63", "U+1E64", "U+1E65",
      "U+1E66", "U+1E67", "U+1E68", "U+1E69", "U+1E6A", "U+1E6B",
      "U+1E6C", "U+1E6D", "U+1E6E", "U+1E6F", "U+1E70", "U+1E71",
      "U+1E72", "U+1E73", "U+1E74", "U+1E75", "U+1E76", "U+1E77",
      "U+1E78", "U+1E79", "U+1E7A", "U+1E7B", "U+1E7C", "U+1E7D",
      "U+1E7E", "U+1E7F", "U+1E80", "U+1E81", "U+1E82", "U+1E83",
      "U+1E84", "U+1E85", "U+1E86", "U+1E87", "U+1E88", "U+1E89",
      "U+1E8A", "U+1E8B", "U+1E8C", "U+1E8D", "U+1E8E", "U+1E8F",
      "U+1E90", "U+1E91", "U+1E92", "U+1E93", "U+1E94", "U+1E95",
      "U+1E9B", "U+1E61", "U+1E9E", "U+00DF", "U+1EA0", "U+1EA1",
      "U+1EA2", "U+1EA3", "U+1EA4", "U+1EA5", "U+1EA6", "U+1EA7",
      "U+1EA8", "U+1EA9", "U+1EAA", "U+1EAB", "U+1EAC", "U+1EAD",
      "U+1EAE", "U+1EAF", "U+1EB0", "U+1EB1", "U+1EB2", "U+1EB3",
      "U+1EB4", "U+1EB5", "U+1EB6", "U+1EB7", "U+1EB8", "U+1EB9",
      "U+1EBA", "U+1EBB", "U+1EBC", "U+1EBD", "U+1EBE", "U+1EBF",
      "U+1EC0", "U+1EC1", "U+1EC2", "U+1EC3", "U+1EC4", "U+1EC5",
      "U+1EC6", "U+1EC7", "U+1EC8", "U+1EC9", "U+1ECA", "U+1ECB",
      "U+1ECC", "U+1ECD", "U+1ECE", "U+1ECF", "U+1ED0", "U+1ED1",
      "U+1ED2", "U+1ED3", "U+1ED4", "U+1ED5", "U+1ED6", "U+1ED7",
      "U+1ED8", "U+1ED9", "U+1EDA", "U+1EDB", "U+1EDC", "U+1EDD",
      "U+1EDE", "U+1EDF", "U+1EE0", "U+1EE1", "U+1EE2", "U+1EE3",
      "U+1EE4", "U+1EE5", "U+1EE6", "U+1EE7", "U+1EE8", "U+1EE9",
      "U+1EEA", "U+1EEB", "U+1EEC", "U+1EED", "U+1EEE", "U+1EEF",
      "U+1EF0", "U+1EF1", "U+1EF2", "U+1EF3", "U+1EF4", "U+1EF5",
      "U+1EF6", "U+1EF7", "U+1EF8", "U+1EF9", "U+1EFA", "U+1EFB",
      "U+1EFC", "U+1EFD", "U+1EFE", "U+1EFF", "U+1F08", "U+1F00",
      "U+1F09", "U+1F01", "U+1F0A", "U+1F02", "U+1F0B", "U+1F03",
      "U+1F0C", "U+1F04", "U+1F0D", "U+1F05", "U+1F0E", "U+1F06",
      "U+1F0F", "U+1F07", "U+1F18", "U+1F10", "U+1F19", "U+1F11",
      "U+1F1A", "U+1F12", "U+1F1B", "U+1F13", "U+1F1C", "U+1F14",
      "U+1F1D", "U+1F15", "U+1F28", "U+1F20", "U+1F29", "U+1F21",
      "U+1F2A", "U+1F22", "U+1F2B", "U+1F23", "U+1F2C", "U+1F24",
      "U+1F2D", "U+1F25", "U+1F2E", "U+1F26", "U+1F2F", "U+1F27",
      "U+1F38", "U+1F30", "U+1F39", "U+1F31", "U+1F3A", "U+1F32",
      "U+1F3B", "U+1F33", "U+1F3C", "U+1F34", "U+1F3D", "U+1F35",
      "U+1F3E", "U+1F36", "U+1F3F", "U+1F37", "U+1F48", "U+1F40",
      "U+1F49", "U+1F41", "U+1F4A", "U+1F42", "U+1F4B", "U+1F43",
      "U+1F4C", "U+1F44", "U+1F4D", "U+1F45", "U+1F59", "U+1F51",
      "U+1F5B", "U+1F53", "U+1F5D", "U+1F55", "U+1F5F", "U+1F57",
      "U+1F68", "U+1F60", "U+1F69", "U+1F61", "U+1F6A", "U+1F62",
      "U+1F6B", "U+1F63", "U+1F6C", "U+1F64", "U+1F6D", "U+1F65",
      "U+1F6E", "U+1F66", "U+1F6F", "U+1F67", "U+1F88", "U+1F80",
      "U+1F89", "U+1F81", "U+1F8A", "U+1F82", "U+1F8B", "U+1F83",
      "U+1F8C", "U+1F84", "U+1F8D", "U+1F85", "U+1F8E", "U+1F86",
      "U+1F8F", "U+1F87", "U+1F98", "U+1F90", "U+1F99", "U+1F91",
      "U+1F9A", "U+1F92", "U+1F9B", "U+1F93", "U+1F9C", "U+1F94",
      "U+1F9D", "U+1F95", "U+1F9E", "U+1F96", "U+1F9F", "U+1F97",
      "U+1FA8", "U+1FA0", "U+1FA9", "U+1FA1", "U+1FAA", "U+1FA2",
      "U+1FAB", "U+1FA3", "U+1FAC", "U+1FA4", "U+1FAD", "U+1FA5",
      "U+1FAE", "U+1FA6", "U+1FAF", "U+1FA7", "U+1FB8", "U+1FB0",
      "U+1FB9", "U+1FB1", "U+1FBA", "U+1F70", "U+1FBB", "U+1F71",
      "U+1FBC", "U+1FB3", "U+1FBE", "U+0345", "U+1FC8", "U+1F72",
      "U+1FC9", "U+1F73", "U+1FCA", "U+1F74", "U+1FCB", "U+1F75",
      "U+1FCC", "U+1FC3", "U+1FD3", "U+0390", "U+1FD8", "U+1FD0",
      "U+1FD9", "U+1FD1", "U+1FDA", "U+1F76", "U+1FDB", "U+1F77",
      "U+1FE3", "U+03B0", "U+1FE8", "U+1FE0", "U+1FE9", "U+1FE1",
      "U+1FEA", "U+1F7A", "U+1FEB", "U+1F7B", "U+1FEC", "U+1FE5",
      "U+1FF8", "U+1F78", "U+1FF9", "U+1F79", "U+1FFA", "U+1F7C",
      "U+1FFB", "U+1F7D", "U+1FFC", "U+1FF3", "U+2126", "U+03C9",
      "U+212A", "k", "U+212B", "U+00E5", "U+2132", "U+214E",
      "U+2160", "U+2170", "U+2161", "U+2171", "U+2162", "U+2172",
      "U+2163", "U+2173", "U+2164", "U+2174", "U+2165", "U+2175",
      "U+2166", "U+2176", "U+2167", "U+2177", "U+2168", "U+2178",
      "U+2169", "U+2179", "U+216A", "U+217A", "U+216B", "U+217B",
      "U+216C", "U+217C", "U+216D", "U+217D", "U+216E", "U+217E",
      "U+216F", "U+217F", "U+2183", "U+2184", "U+24B6", "U+24D0",
      "U+24B7", "U+24D1", "U+24B8", "U+24D2", "U+24B9", "U+24D3",
      "U+24BA", "U+24D4", "U+24BB", "U+24D5", "U+24BC", "U+24D6",
      "U+24BD", "U+24D7", "U+24BE", "U+24D8", "U+24BF", "U+24D9",
      "U+24C0", "U+24DA", "U+24C1", "U+24DB", "U+24C2", "U+24DC",
      "U+24C3", "U+24DD", "U+24C4", "U+24DE", "U+24C5", "U+24DF",
      "U+24C6", "U+24E0", "U+24C7", "U+24E1", "U+24C8", "U+24E2",
      "U+24C9", "U+24E3", "U+24CA", "U+24E4", "U+24CB", "U+24E5",
      "U+24CC", "U+24E6", "U+24CD", "U+24E7", "U+24CE", "U+24E8",
      "U+24CF", "U+24E9", "U+2C00", "U+2C30", "U+2C01", "U+2C31",
      "U+2C02", "U+2C32", "U+2C03", "U+2C33", "U+2C04", "U+2C34",
      "U+2C05", "U+2C35", "U+2C06", "U+2C36", "U+2C07", "U+2C37",
      "U+2C08", "U+2C38", "U+2C09", "U+2C39", "U+2C0A", "U+2C3A",
      "U+2C0B", "U+2C3B", "U+2C0C", "U+2C3C", "U+2C0D", "U+2C3D",
      "U+2C0E", "U+2C3E", "U+2C0F", "U+2C3F", "U+2C10", "U+2C40",
      "U+2C11", "U+2C41", "U+2C12", "U+2C42", "U+2C13", "U+2C43",
      "U+2C14", "U+2C44", "U+2C15", "U+2C45", "U+2C16", "U+2C46",
      "U+2C17", "U+2C47", "U+2C18", "U+2C48", "U+2C19", "U+2C49",
      "U+2C1A", "U+2C4A", "U+2C1B", "U+2C4B", "U+2C1C", "U+2C4C",
      "U+2C1D", "U+2C4D", "U+2C1E", "U+2C4E", "U+2C1F", "U+2C4F",
      "U+2C20", "U+2C50", "U+2C21", "U+2C51", "U+2C22", "U+2C52",
      "U+2C23", "U+2C53", "U+2C24", "U+2C54", "U+2C25", "U+2C55",
      "U+2C26", "U+2C56", "U+2C27", "U+2C57", "U+2C28", "U+2C58",
      "U+2C29", "U+2C59", "U+2C2A", "U+2C5A", "U+2C2B", "U+2C5B",
      "U+2C2C", "U+2C5C", "U+2C2D", "U+2C5D", "U+2C2E", "U+2C5E",
      "U+2C2F", "U+2C5F", "U+2C60", "U+2C61", "U+2C62", "U+026B",
      "U+2C63", "U+1D7D", "U+2C64", "U+027D", "U+2C67", "U+2C68",
      "U+2C69", "U+2C6A", "U+2C6B", "U+2C6C", "U+2C6D", "U+0251",
      "U+2C6E", "U+0271", "U+2C6F", "U+0250", "U+2C70", "U+0252",
      "U+2C72", "U+2C73", "U+2C75", "U+2C76", "U+2C7E", "U+023F",
      "U+2C7F", "U+0240", "U+2C80", "U+2C81", "U+2C82", "U+2C83",
      "U+2C84", "U+2C85", "U+2C86", "U+2C87", "U+2C88", "U+2C89",
      "U+2C8A", "U+2C8B", "U+2C8C", "U+2C8D", "U+2C8E", "U+2C8F",
      "U+2C90", "U+2C91", "U+2C92", "U+2C93", "U+2C94", "U+2C95",
      "U+2C96", "U+2C97", "U+2C98", "U+2C99", "U+2C9A", "U+2C9B",
      "U+2C9C", "U+2C9D", "U+2C9E", "U+2C9F", "U+2CA0", "U+2CA1",
      "U+2CA2", "U+2CA3", "U+2CA4", "U+2CA5", "U+2CA6", "U+2CA7",
      "U+2CA8", "U+2CA9", "U+2CAA", "U+2CAB", "U+2CAC", "U+2CAD",
      "U+2CAE", "U+2CAF", "U+2CB0", "U+2CB1", "U+2CB2", "U+2CB3",
      "U+2CB4", "U+2CB5", "U+2CB6", "U+2CB7", "U+2CB8", "U+2CB9",
      "U+2CBA", "U+2CBB", "U+2CBC", "U+2CBD", "U+2CBE", "U+2CBF",
      "U+2CC0", "U+2CC1", "U+2CC2", "U+2CC3", "U+2CC4", "U+2CC5",
      "U+2CC6", "U+2CC7", "U+2CC8", "U+2CC9", "U+2CCA", "U+2CCB",
      "U+2CCC", "U+2CCD", "U+2CCE", "U+2CCF", "U+2CD0", "U+2CD1",
      "U+2CD2", "U+2CD3", "U+2CD4", "U+2CD5", "U+2CD6", "U+2CD7",
      "U+2CD8", "U+2CD9", "U+2CDA", "U+2CDB", "U+2CDC", "U+2CDD",
      "U+2CDE", "U+2CDF", "U+2CE0", "U+2CE1", "U+2CE2", "U+2CE3",
      "U+2CEB", "U+2CEC", "U+2CED", "U+2CEE", "U+2CF2", "U+2CF3",
      "U+A640", "U+A641", "U+A642", "U+A643", "U+A644", "U+A645",
      "U+A646", "U+A647", "U+A648", "U+A649", "U+A64A", "U+1C88",
      "U+A64B", "U+1C88", "U+A64C", "U+A64D", "U+A64E", "U+A64F",
      "U+A650", "U+A651", "U+A652", "U+A653", "U+A654", "U+A655",
      "U+A656", "U+A657", "U+A658", "U+A659", "U+A65A", "U+A65B",
      "U+A65C", "U+A65D", "U+A65E", "U+A65F", "U+A660", "U+A661",
      "U+A662", "U+A663", "U+A664", "U+A665", "U+A666", "U+A667",
      "U+A668", "U+A669", "U+A66A", "U+A66B", "U+A66C", "U+A66D",
      "U+A680", "U+A681", "U+A682", "U+A683", "U+A684", "U+A685",
      "U+A686", "U+A687", "U+A688", "U+A689", "U+A68A", "U+A68B",
      "U+A68C", "U+A68D", "U+A68E", "U+A68F", "U+A690", "U+A691",
      "U+A692", "U+A693", "U+A694", "U+A695", "U+A696", "U+A697",
      "U+A698", "U+A699", "U+A69A", "U+A69B", "U+A722", "U+A723",
      "U+A724", "U+A725", "U+A726", "U+A727", "U+A728", "U+A729",
      "U+A72A", "U+A72B", "U+A72C", "U+A72D", "U+A72E", "U+A72F",
      "U+A732", "U+A733", "U+A734", "U+A735", "U+A736", "U+A737",
      "U+A738", "U+A739", "U+A73A", "U+A73B", "U+A73C", "U+A73D",
      "U+A73E", "U+A73F", "U+A740", "U+A741", "U+A742", "U+A743",
      "U+A744", "U+A745", "U+A746", "U+A747", "U+A748", "U+A749",
      "U+A74A", "U+A74B", "U+A74C", "U+A74D", "U+A74E", "U+A74F",
      "U+A750", "U+A751", "U+A752", "U+A753", "U+A754", "U+A755",
      "U+A756", "U+A757", "U+A758", "U+A759", "U+A75A", "U+A75B",
      "U+A75C", "U+A75D", "U+A75E", "U+A75F", "U+A760", "U+A761",
      "U+A762", "U+A763", "U+A764", "U+A765", "U+A766", "U+A767",
      "U+A768", "U+A769", "U+A76A", "U+A76B", "U+A76C", "U+A76D",
      "U+A76E", "U+A76F", "U+A779", "U+A77A", "U+A77B", "U+A77C",
      "U+A77D", "U+1D79", "U+A77E", "U+A77F", "U+A780", "U+A781",
      "U+A782", "U+A783", "U+A784", "U+A785", "U+A786", "U+A787",
      "U+A78B", "U+A78C", "U+A78D", "U+0265", "U+A790", "U+A791",
      "U+A792", "U+A793", "U+A796", "U+A797", "U+A798", "U+A799",
      "U+A79A", "U+A79B", "U+A79C", "U+A79D", "U+A79E", "U+A79F",
      "U+A7A0", "U+A7A1", "U+A7A2", "U+A7A3", "U+A7A4", "U+A7A5",
      "U+A7A6", "U+A7A7", "U+A7A8", "U+A7A9", "U+A7AA", "U+0266",
      "U+A7AB", "U+025C", "U+A7AC", "U+0261", "U+A7AD", "U+026C",
      "U+A7AE", "U+026A", "U+A7B0", "U+029E", "U+A7B1", "U+0287",
      "U+A7B2", "U+029D", "U+A7B3", "U+AB53", "U+A7B4", "U+A7B5",
      "U+A7B6", "U+A7B7", "U+A7B8", "U+A7B9", "U+A7BA", "U+A7BB",
      "U+A7BC", "U+A7BD", "U+A7BE", "U+A7BF", "U+A7C0", "U+A7C1",
      "U+A7C2", "U+A7C3", "U+A7C4", "U+A794", "U+A7C5", "U+0282",
      "U+A7C6", "U+1D8E", "U+A7C7", "U+A7C8", "U+A7C9", "U+A7CA",
      "U+A7D0", "U+A7D1", "U+A7D6", "U+A7D7", "U+A7D8", "U+A7D9",
      "U+A7F5", "U+A7F6", "U+FB06", "U+FB05", "U+FF21", "U+FF41",
      "U+FF22", "U+FF42", "U+FF23", "U+FF43", "U+FF24", "U+FF44",
      "U+FF25", "U+FF45", "U+FF26", "U+FF46", "U+FF27", "U+FF47",
      "U+FF28", "U+FF48", "U+FF29", "U+FF49", "U+FF2A", "U+FF4A",
      "U+FF2B", "U+FF4B", "U+FF2C", "U+FF4C", "U+FF2D", "U+FF4D",
      "U+FF2E", "U+FF4E", "U+FF2F", "U+FF4F", "U+FF30", "U+FF50",
      "U+FF31", "U+FF51", "U+FF32", "U+FF52", "U+FF33", "U+FF53",
      "U+FF34", "U+FF54", "U+FF35", "U+FF55", "U+FF36", "U+FF56",
      "U+FF37", "U+FF57", "U+FF38", "U+FF58", "U+FF39", "U+FF59",
      "U+FF3A", "U+FF5A", "U+10400", "U+10428", "U+10401", "U+10429",
      "U+10402", "U+1042A", "U+10403", "U+1042B", "U+10404", "U+1042C",
      "U+10405", "U+1042D", "U+10406", "U+1042E", "U+10407", "U+1042F",
      "U+10408", "U+10430", "U+10409", "U+10431", "U+1040A", "U+10432",
      "U+1040B", "U+10433", "U+1040C", "U+10434", "U+1040D", "U+10435",
      "U+1040E", "U+10436", "U+1040F", "U+10437", "U+10410", "U+10438",
      "U+10411", "U+10439", "U+10412", "U+1043A", "U+10413", "U+1043B",
      "U+10414", "U+1043C", "U+10415", "U+1043D", "U+10416", "U+1043E",
      "U+10417", "U+1043F", "U+10418", "U+10440", "U+10419", "U+10441",
      "U+1041A", "U+10442", "U+1041B", "U+10443", "U+1041C", "U+10444",
      "U+1041D", "U+10445", "U+1041E", "U+10446", "U+1041F", "U+10447",
      "U+10420", "U+10448", "U+10421", "U+10449", "U+10422", "U+1044A",
      "U+10423", "U+1044B", "U+10424", "U+1044C", "U+10425", "U+1044D",
      "U+10426", "U+1044E", "U+10427", "U+1044F", "U+104B0", "U+104D8",
      "U+104B1", "U+104D9", "U+104B2", "U+104DA", "U+104B3", "U+104DB",
      "U+104B4", "U+104DC", "U+104B5", "U+104DD", "U+104B6", "U+104DE",
      "U+104B7", "U+104DF", "U+104B8", "U+104E0", "U+104B9", "U+104E1",
      "U+104BA", "U+104E2", "U+104BB", "U+104E3", "U+104BC", "U+104E4",
      "U+104BD", "U+104E5", "U+104BE", "U+104E6", "U+104BF", "U+104E7",
      "U+104C0", "U+104E8", "U+104C1", "U+104E9", "U+104C2", "U+104EA",
      "U+104C3", "U+104EB", "U+104C4", "U+104EC", "U+104C5", "U+104ED",
      "U+104C6", "U+104EE", "U+104C7", "U+104EF", "U+104C8", "U+104F0",
      "U+104C9", "U+104F1", "U+104CA", "U+104F2", "U+104CB", "U+104F3",
      "U+104CC", "U+104F4", "U+104CD", "U+104F5", "U+104CE", "U+104F6",
      "U+104CF", "U+104F7", "U+104D0", "U+104F8", "U+104D1", "U+104F9",
      "U+104D2", "U+104FA", "U+104D3", "U+104FB", "U+10570", "U+10597",
      "U+10571", "U+10598", "U+10572", "U+10599", "U+10573", "U+1059A",
      "U+10574", "U+1059B", "U+10575", "U+1059C", "U+10576", "U+1059D",
      "U+10577", "U+1059E", "U+10578", "U+1059F", "U+10579", "U+105A0",
      "U+1057A", "U+105A1", "U+1057C", "U+105A3", "U+1057D", "U+105A4",
      "U+1057E", "U+105A5", "U+1057F", "U+105A6", "U+10580", "U+105A7",
      "U+10581", "U+105A8", "U+10582", "U+105A9", "U+10583", "U+105AA",
      "U+10584", "U+105AB", "U+10585", "U+105AC", "U+10586", "U+105AD",
      "U+10587", "U+105AE", "U+10588", "U+105AF", "U+10589", "U+105B0",
      "U+1058A", "U+105B1", "U+1058C", "U+105B3", "U+1058D", "U+105B4",
      "U+1058E", "U+105B5", "U+1058F", "U+105B6", "U+10590", "U+105B7",
      "U+10591", "U+105B8", "U+10592", "U+105B9", "U+10594", "U+105BB",
      "U+10595", "U+105BC", "U+10C80", "U+10CC0", "U+10C81", "U+10CC1",
      "U+10C82", "U+10CC2", "U+10C83", "U+10CC3", "U+10C84", "U+10CC4",
      "U+10C85", "U+10CC5", "U+10C86", "U+10CC6", "U+10C87", "U+10CC7",
      "U+10C88", "U+10CC8", "U+10C89", "U+10CC9", "U+10C8A", "U+10CCA",
      "U+10C8B", "U+10CCB", "U+10C8C", "U+10CCC", "U+10C8D", "U+10CCD",
      "U+10C8E", "U+10CCE", "U+10C8F", "U+10CCF", "U+10C90", "U+10CD0",
      "U+10C91", "U+10CD1", "U+10C92", "U+10CD2", "U+10C93", "U+10CD3",
      "U+10C94", "U+10CD4", "U+10C95", "U+10CD5", "U+10C96", "U+10CD6",
      "U+10C97", "U+10CD7", "U+10C98", "U+10CD8", "U+10C99", "U+10CD9",
      "U+10C9A", "U+10CDA", "U+10C9B", "U+10CDB", "U+10C9C", "U+10CDC",
      "U+10C9D", "U+10CDD", "U+10C9E", "U+10CDE", "U+10C9F", "U+10CDF",
      "U+10CA0", "U+10CE0", "U+10CA1", "U+10CE1", "U+10CA2", "U+10CE2",
      "U+10CA3", "U+10CE3", "U+10CA4", "U+10CE4", "U+10CA5", "U+10CE5",
      "U+10CA6", "U+10CE6", "U+10CA7", "U+10CE7", "U+10CA8", "U+10CE8",
      "U+10CA9", "U+10CE9", "U+10CAA", "U+10CEA", "U+10CAB", "U+10CEB",
      "U+10CAC", "U+10CEC", "U+10CAD", "U+10CED", "U+10CAE", "U+10CEE",
      "U+10CAF", "U+10CEF", "U+10CB0", "U+10CF0", "U+10CB1", "U+10CF1",
      "U+10CB2", "U+10CF2", "U+118A0", "U+118C0", "U+118A1", "U+118C1",
      "U+118A2", "U+118C2", "U+118A3", "U+118C3", "U+118A4", "U+118C4",
      "U+118A5", "U+118C5", "U+118A6", "U+118C6", "U+118A7", "U+118C7",
      "U+118A8", "U+118C8", "U+118A9", "U+118C9", "U+118AA", "U+118CA",
      "U+118AB", "U+118CB", "U+118AC", "U+118CC", "U+118AD", "U+118CD",
      "U+118AE", "U+118CE", "U+118AF", "U+118CF", "U+118B0", "U+118D0",
      "U+118B1", "U+118D1", "U+118B2", "U+118D2", "U+118B3", "U+118D3",
      "U+118B4", "U+118D4", "U+118B5", "U+118D5", "U+118B6", "U+118D6",
      "U+118B7", "U+118D7", "U+118B8", "U+118D8", "U+118B9", "U+118D9",
      "U+118BA", "U+118DA", "U+118BB", "U+118DB", "U+118BC", "U+118DC",
      "U+118BD", "U+118DD", "U+118BE", "U+118DE", "U+118BF", "U+118DF",
      "U+16E40", "U+16E60", "U+16E41", "U+16E61", "U+16E42", "U+16E62",
      "U+16E43", "U+16E63", "U+16E44", "U+16E64", "U+16E45", "U+16E65",
      "U+16E46", "U+16E66", "U+16E47", "U+16E67", "U+16E48", "U+16E68",
      "U+16E49", "U+16E69", "U+16E4A", "U+16E6A", "U+16E4B", "U+16E6B",
      "U+16E4C", "U+16E6C", "U+16E4D", "U+16E6D", "U+16E4E", "U+16E6E",
      "U+16E4F", "U+16E6F", "U+16E50", "U+16E70", "U+16E51", "U+16E71",
      "U+16E52", "U+16E72", "U+16E53", "U+16E73", "U+16E54", "U+16E74",
      "U+16E55", "U+16E75", "U+16E56", "U+16E76", "U+16E57", "U+16E77",
      "U+16E58", "U+16E78", "U+16E59", "U+16E79", "U+16E5A", "U+16E7A",
      "U+16E5B", "U+16E7B", "U+16E5C", "U+16E7C", "U+16E5D", "U+16E7D",
      "U+16E5E", "U+16E7E", "U+16E5F", "U+16E7F", "U+1E900", "U+1E922",
      "U+1E901", "U+1E923", "U+1E902", "U+1E924", "U+1E903", "U+1E925",
      "U+1E904", "U+1E926", "U+1E905", "U+1E927", "U+1E906", "U+1E928",
      "U+1E907", "U+1E929", "U+1E908", "U+1E92A", "U+1E909", "U+1E92B",
      "U+1E90A", "U+1E92C", "U+1E90B", "U+1E92D", "U+1E90C", "U+1E92E",
      "U+1E90D", "U+1E92F", "U+1E90E", "U+1E930", "U+1E90F", "U+1E931",
      "U+1E910", "U+1E932", "U+1E911", "U+1E933", "U+1E912", "U+1E934",
      "U+1E913", "U+1E935", "U+1E914", "U+1E936", "U+1E915", "U+1E937",
      "U+1E916", "U+1E938", "U+1E917", "U+1E939", "U+1E918", "U+1E93A",
      "U+1E919", "U+1E93B", "U+1E91A", "U+1E93C", "U+1E91B", "U+1E93D",
      "U+1E91C", "U+1E93E", "U+1E91D", "U+1E93F", "U+1E91E", "U+1E940",
      "U+1E91F", "U+1E941", "U+1E920", "U+1E942", "U+1E921", "U+1E943">>

IsDigit(c) == \E v \in 1..10 : c \in DecimalDigits[v]
DigitVal(c) == (CHOOSE v \in 1..10 : c \in DecimalDigits[v]) - 1

\* The character standing for c's class under re.IGNORECASE.
IgnoreCaseKeys ==
    [c \in {IgnoreCaseTable[2 * i - 1] : i \in 1..(Len(IgnoreCaseTable) \div 2)} |->
        IgnoreCaseTable[2 * (CHOOSE i \in 1..(Len(IgnoreCaseTable) \div 2) :
                                IgnoreCaseTable[2 * i - 1] = c)]]
IgnoreCaseChar(c) == IF c \in DOMAIN IgnoreCaseKeys THEN IgnoreCaseKeys[c] ELSE c
IgnoreCase(s) == [i \in 1..Len(s) |-> IgnoreCaseChar(s[i])]


\* float() compares "inf", "infinity", "nan" and the exponent mark without
\* regard to case, over the ASCII letters only.
UpperChars == <<"A", "B", "C", "D", "E", "F", "G", "H", "I", "J", "K", "L",
                "M", "N", "O", "P", "Q", "R", "S", "T", "U", "V", "W", "X",
                "Y", "Z">>
LowerChars == <<"a", "b", "c", "d", "e", "f", "g", "h", "i", "j", "k", "l",
                "m", "n", "o", "p", "q", "r", "s", "t", "u", "v", "w", "x",
                "y", "z">>
AsciiLowerChar(c) ==
    IF \E i \in 1..Len(UpperChars) : UpperChars[i] = c
    THEN LowerChars[CHOOSE i \in 1..Len(UpperChars) : UpperChars[i] = c]
    ELSE c
AsciiLower(s) == [i \in 1..Len(s) |-> AsciiLowerChar(s[i])]

\* str.replace(old, new) for a one-character old; new is a text (maybe empty).
RECURSIVE Replace(_, _, _)
Replace(s, old, new) ==
    IF s = <<>> THEN <<>>
    ELSE (IF Head(s) = old THEN new ELSE <<Head(s)>>) \o Replace(Tail(s), old, new)

\* The characters float() and the date parser drop at both ends of a text.
Whitespace ==
    {"\t", "\n", "U+000B", "U+000C", "\r", " ", "U+0085", "U+00A0", "U+1680",
     "U+2000", "U+2001", "U+2002", "U+2003", "U+2004", "U+2005", "U+2006",
     "U+2007", "U+2008", "U+2009", "U+200A", "U+2028", "U+2029", "U+202F",
     "U+205F", "U+3000"}
RECURSIVE DropLeading(_)
DropLeading(s) == IF s # <<>> /\ Head(s) \in Whitespace THEN DropLeading(Tail(s)) ELSE s
RECURSIVE DropTrailing(_)
DropTrailing(s) ==
    IF s # <<>> /\ s[Len(s)] \in Whitespace
    THEN DropTrailing(SubSeq(s, 1, Len(s) - 1)) ELSE s
Trimmed(s) == DropTrailing(DropLeading(s))

\* The positions of character c in s, and the pieces of s between them.
Positions(s, c) == {i \in 1..Len(s) : s[i] = c}
RECURSIVE Split(_, _)
Split(s, c) ==
    IF Positions(s, c) = {} THEN <<s>>
    ELSE LET p == CHOOSE i \in Positions(s, c) : \A j \in Positions(s, c) : i <= j
         IN  <<SubSeq(s, 1, p - 1)>> \o Split(SubSeq(s, p + 1, Len(s)), c)

(***************************************************************************)
(* float(text), Python's built-in conversion                               *)
(***************************************************************************)
\* A digit part: digits, single underscores allowed between two digits.
IsDigitPart(s) ==
    /\ s # <<>>
    /\ \A i \in 1..Len(s) : IsDigit(s[i]) \/ s[i] = "_"
    /\ IsDigit(s[1]) /\ IsDigit(s[Len(s)])
    /\ \A i \in 1..(Len(s) - 1) : ~(s[i] = "_" /\ s[i + 1] = "_")

RECURSIVE DigitsValue(_)
DigitsValue(s) ==
    IF s = <<>> THEN 0
    ELSE LET init == SubSeq(s, 1, Len(s) - 1)
             c == s[Len(s)]
         IN  IF c = "_" THEN DigitsValue(init) ELSE 10 * DigitsValue(init) + DigitVal(c)

NumDigits(s) == Cardinality({i \in 1..Len(s) : IsDigit(s[i])})

HasSign(s) == s # <<>> /\ Head(s) \in {"+", "-"}
Unsigned(s) == IF HasSign(s) THEN Tail(s) ELSE s
SignOf(s) == IF s # <<>> /\ Head(s) = "-" THEN -1 ELSE 1

\* mantissa: digits [. [digits]] | . digits
IsMantissa(s) ==
    LET parts == Split(s, ".")
    IN  \/ Len(parts) = 1 /\ IsDigitPart(parts[1])
        \/ /\ Len(parts) = 2
           /\ parts[1] = <<>> \/ IsDigitPart(parts[1])
           /\ parts[2] = <<>> \/ IsDigitPart(parts[2])
           /\ parts[1] # <<>> \/ parts[2] # <<>>

\* the exponent part after e/E: [sign] digits
IsExponent(s) == IsDigitPart(Unsigned(s))

\* The text of a finite decimal literal, already lower-cased and unsigned.
IsDecimal(s) ==
    LET parts == Split(s, "e")
    IN  \/ Len(parts) = 1 /\ IsMantissa(parts[1])
        \/ Len(parts) = 2 /\ IsMantissa(parts[1]) /\ IsExponent(parts[2])

DecimalValue(sign, s) ==
    LET eparts == Split(s, "e")
        mparts == Split(eparts[1], ".")
        whole == DigitsValue(mparts[1])
        frac == IF Len(mparts) = 2 THEN mparts[2] ELSE <<>>
        scale == NumDigits(frac)
        mant == whole * Pow10(scale) + DigitsValue(frac)
        ex == IF Len(eparts) = 2
              THEN SignOf(eparts[2]) * DigitsValue(Unsigned(eparts[2]))
              ELSE 0
        e10 == ex - scale
    IN  IF e10 >= 0 THEN Float(sign * mant * Pow10(e10), 1)
        ELSE Float(sign * mant, Pow10(-e10))

\* float(s) for a text s: a float, or ValueError raised.
PyFloat(s) ==
    LET t == AsciiLower(Trimmed(s))
        u == Unsigned(t)
    IN  IF u \in {<<"i", "n", "f">>, <<"i", "n", "f", "i", "n", "i", "t", "y">>}
        THEN Inf(SignOf(t))
        ELSE IF u = <<"n", "a", "n">> THEN NaN
        ELSE IF IsDecimal(u) THEN DecimalValue(SignOf(t), u)
        ELSE Raise(<<"ValueError">>)

(***************************************************************************)
(* str(value), as parse_demand applies it to a cell (line 17)              *)
(***************************************************************************)
RECURSIVE NatText(_)
NatText(m) ==
    IF m < 10 THEN <<Digits[m + 1]>> ELSE NatText(m \div 10) \o <<Digits[(m % 10) + 1]>>

RECURSIVE ZeroPad(_, _)
ZeroPad(s, width) == IF Len(s) >= width THEN s ELSE ZeroPad(<<"0">> \o s, width)

RECURSIVE StripZeros(_)
StripZeros(s) ==
    IF Len(s) > 1 /\ s[Len(s)] = "0" THEN StripZeros(SubSeq(s, 1, Len(s) - 1)) ELSE s

\* The least k with d dividing 10^k, for a denominator of a decimal.
RECURSIVE DecScaleFrom(_, _)
DecScaleFrom(d, k) == IF Pow10(k) % d = 0 THEN k ELSE DecScaleFrom(d, k + 1)
DecScale(d) == DecScaleFrom(d, 0)

\* repr of the finite float n/d: positional for 1e-4 <= |x| < 1e16 (and 0),
\* scientific with a two-digit exponent otherwise.
FloatRepr(n, d) ==
    LET k == DecScale(d)
        m == (Abs(n) * Pow10(k)) \div d
        sg == IF n < 0 THEN <<"-">> ELSE <<>>
        all == NatText(m)
        x == Len(all) - k - 1
        sig == StripZeros(all)
        ax == NatText(Abs(x))
    IN  IF m = 0 THEN <<"0", ".", "0">>
        ELSE IF x >= -4 /\ x < 16
        THEN sg \o NatText(m \div Pow10(k)) \o <<".">>
                \o (IF k = 0 THEN <<"0">> ELSE StripZeros(ZeroPad(NatText(m % Pow10(k)), k)))
        ELSE sg \o <<sig[1]>>
                \o (IF Len(sig) > 1 THEN <<".">> \o SubSeq(sig, 2, Len(sig)) ELSE <<>>)
                \o <<"e", IF x < 0 THEN "-" ELSE "+">> \o ZeroPad(ax, 2)

PyStr(v) ==
    CASE v.t = "str" -> v.s
      [] v.t = "int" -> (IF v.n < 0 THEN <<"-">> ELSE <<>>) \o NatText(Abs(v.n))
      [] v.t = "float" -> FloatRepr(v.n, v.d)
      [] v.t = "inf" -> IF v.n < 0 THEN <<"-", "i", "n", "f">> ELSE <<"i", "n", "f">>
      [] v.t = "nan" -> <<"n", "a", "n">>
      [] OTHER -> <<"N", "o", "n", "e">>

(***************************************************************************)
(* clean_demand_column (lines 13-25)                                       *)
(***************************************************************************)
\* Lines 20-23: the float, or None when float() raises ValueError.
FloatOrNone(f) == IF f.t = "raise" THEN None ELSE f

parse_demand(val) ==
    IF isna(val) THEN None
    ELSE LET s0 == PyStr(val)
             s1 == Replace(Replace(s0, "U+20AC", <<>>), " ", <<>>)
             s2 == Replace(Replace(s1, ".", <<>>), ",", <<".">>)
         IN  FloatOrNone(PyFloat(s2))

\* A table (DataFrame) is a sequence of rows; a row is a record of cells with
\* its index label idx.  df['Demand'].apply(parse_demand) maps the column and
\* infers the type of the result: next to a float a None is stored as NaN (a
\* float64 column); a column of None only keeps them (an object column).
AssignDemand(frame, parsed) ==
    LET float64 == \E i \in 1..Len(frame) : parsed[i] # None
    IN  [i \in 1..Len(frame) |->
            [frame[i] EXCEPT !.Demand = IF float64 /\ parsed[i] = None
                                        THEN NaN ELSE parsed[i]]]
clean_demand_column(frame) ==
    AssignDemand(frame, [i \in 1..Len(frame) |-> parse_demand(frame[i].Demand)])

(***************************************************************************)
(* Float arithmetic (IEEE special values kept, finite values exact)        *)
(***************************************************************************)
AsFloat(v) == IF v.t = "int" THEN Float(v.n, 1) ELSE IF v.t = "none" THEN NaN ELSE v

FAdd(a, b) ==
    CASE a.t = "nan" \/ b.t = "nan" -> NaN
      [] a.t = "inf" /\ b.t = "inf" -> IF a.n = b.n THEN a ELSE NaN
      [] a.t = "inf" -> a
      [] b.t = "inf" -> b
      [] OTHER -> Float(a.n * b.d + b.n * a.d, a.d * b.d)

FMul(a, b) ==
    CASE a.t = "nan" \/ b.t = "nan" -> NaN
      [] a.t = "inf" /\ b.t = "inf" -> Inf(a.n * b.n)
      [] a.t = "inf" -> IF b.n = 0 THEN NaN ELSE Inf(a.n * Sign(b.n))
      [] b.t = "inf" -> IF a.n = 0 THEN NaN ELSE Inf(b.n * Sign(a.n))
      [] OTHER -> Float(a.n * b.n, a.d * b.d)

\* a / k for an integer k > 0
FDivInt(a, k) == IF a.t = "float" THEN Float(a.n, a.d * k) ELSE a

RECURSIVE FSum(_)
FSum(vals) == IF vals = <<>> THEN Float(0, 1) ELSE FAdd(AsFloat(Head(vals)), FSum(Tail(vals)))

\* Series.mean(): missing values are skipped; the mean of no value is NaN.
IsPresent(v) == ~isna(v)
Column(frame, col) == [i \in 1..Len(frame) |-> frame[i][col]]
SeriesMean(series) ==
    LET vals == SelectSeq(series, IsPresent)
    IN  IF vals = <<>> THEN NaN ELSE FDivInt(FSum(vals), Len(vals))

(***************************************************************************)
(* estimate_demand (lines 46-58)                                           *)
(***************************************************************************)
PeriodMean(frame) == IF frame # <<>> THEN SeriesMean(Column(frame, "Demand")) ELSE None

\* 1 + percentage / 100
GrowthFactor(percentage) == FAdd(Float(1, 1), Float(percentage, 100))

\* Blend with a missing Earlier period counted as zero before averaging.
BlendMissingAsZero(earlier_mean, later_mean, percentage) ==
    IF earlier_mean = None /\ later_mean = None THEN None
    ELSE IF earlier_mean # None /\ later_mean # None
    THEN FDivInt(FAdd(FMul(earlier_mean, GrowthFactor(percentage)), later_mean), 2)
    ELSE IF earlier_mean # None
    THEN FMul(earlier_mean, GrowthFactor(percentage))
    ELSE FDivInt(later_mean, 2)

Blend(earlier_mean, later_mean, percentage) ==
    IF earlier_mean = None /\ later_mean = None THEN None
    ELSE IF earlier_mean # None /\ later_mean # None
    THEN FDivInt(FAdd(FMul(earlier_mean, GrowthFactor(percentage)), later_mean), 2)
    ELSE IF earlier_mean # None
    THEN FMul(earlier_mean, GrowthFactor(percentage))
    ELSE later_mean

estimate_demand(earlier_df, later_df, percentage) ==
    Blend(PeriodMean(earlier_df), PeriodMean(later_df), percentage)

(***************************************************************************)
(* Series.str.contains(pat, case=False, na=False): pandas compiles pat     *)
(* with re.compile(pat, re.IGNORECASE) and asks pattern.search(cell) of    *)
(* every text cell.  The pattern is read as re's parser reads it: first    *)
(* its tokens, then the errors the parser raises on them, then the match.  *)
(* The model covers literals, '.', '^', '$', '|', groups '(...)' and       *)
(* '(?:...)', the quantifiers '*', '+', '?', '{m}', '{m,}', '{,n}',        *)
(* '{m,n}' and their lazy forms, character sets with literals, ranges      *)
(* within ASCII and negation, and the escapes \d \D \s \S \A \Z \a \f \n   *)
(* \r \t \v and of punctuation.  The rest of re's syntax (other '(?'       *)
(* groups, \b \B \w \W, numeric and named escapes, possessive quantifiers, *)
(* counts of ten digits or more) has no value in the model.                *)
(***************************************************************************)
\* The ASCII characters in code order, and the code of each; the control
\* characters and the grave accent are written by their code points.
Ascii ==
    <<"U+0000", "U+0001", "U+0002", "U+0003", "U+0004", "U+0005", "U+0006",
    "U+0007", "U+0008", "\t", "\n", "U+000B", "U+000C", "\r", "U+000E",
    "U+000F", "U+0010", "U+0011", "U+0012", "U+0013", "U+0014", "U+0015",
    "U+0016", "U+0017", "U+0018", "U+0019", "U+001A", "U+001B", "U+001C",
    "U+001D", "U+001E", "U+001F", " ", "!", "\"", "#", "$", "%", "&", "'",
    "(", ")", "*", "+", ",", "-", ".", "/", "0", "1", "2", "3", "4", "5",
    "6", "7", "8", "9", ":", ";", "<", "=", ">", "?", "@", "A", "B", "C",
    "D", "E", "F", "G", "H", "I", "J", "K", "L", "M", "N", "O", "P", "Q",
    "R", "S", "T", "U", "V", "W", "X", "Y", "Z", "[", "\\", "]", "^", "_",
    "U+0060", "a", "b", "c", "d", "e", "f", "g", "h", "i", "j", "k", "l",
    "m", "n", "o", "p", "q", "r", "s", "t", "u", "v", "w", "x", "y", "z",
    "{", "|", "}", "~", "U+007F">>
Ord == [c \in {Ascii[i] : i \in 1..Len(Ascii)} |->
           (CHOOSE i \in 1..Len(Ascii) : Ascii[i] = c) - 1]
AsciiLetters ==
    {"A", "B", "C", "D", "E", "F", "G", "H", "I", "J", "K", "L", "M", "N",
     "O", "P", "Q", "R", "S", "T", "U", "V", "W", "X", "Y", "Z", "a", "b",
     "c", "d", "e", "f", "g", "h", "i", "j", "k", "l", "m", "n", "o", "p",
     "q", "r", "s", "t", "u", "v", "w", "x", "y", "z"}
IsAscii(c) == c \in DOMAIN Ord
IsAsciiDigit(c) == c \in {"0", "1", "2", "3", "4", "5", "6", "7", "8", "9"}
IsAsciiLetter(c) == c \in AsciiLetters

\* A token of the pattern: a literal, '.', a position ("at"), a character
\* set ("in": negated or not, with its items), a quantifier ("repeat": lo to
\* hi times, hi = -1 for no limit), "open", "close", "or"; "error" where the
\* parser raises re.error, "outside" where the model has no value.
Token(k, c) == [k |-> k, c |-> c, lo |-> 0, hi |-> 0, neg |-> FALSE, items |-> <<>>]
Item(k, c, c2) == [k |-> k, c |-> c, c2 |-> c2]
Read(tok, next) == [tok |-> tok, next |-> next]
SetToken(neg, items) == [Token("in", "") EXCEPT !.neg = neg, !.items = items]

\* _parser.ESCAPES: the characters that letter escapes stand for.
ESCAPES ==
    [e \in {"a", "b", "f", "n", "r", "t", "v", "\\"} |->
        CASE e = "a" -> "U+0007" [] e = "b" -> "U+0008" [] e = "f" -> "U+000C"
          [] e = "n" -> "\n" [] e = "r" -> "\r" [] e = "t" -> "\t"
          [] e = "v" -> "U+000B" [] e = "\\" -> "\\"]

\* _parser._escape: the escape at pat[i] = '\' outside a character set.
_escape(pat, i) ==
    IF i = Len(pat) THEN Read(Token("error", ""), i + 1)
    ELSE LET e == pat[i + 1]
         IN  Read(CASE e \in {"d", "D", "s", "S"} -> SetToken(FALSE, <<Item("category", e, e)>>)
                    [] e = "A" -> Token("at", "^")
                    [] e = "Z" -> Token("at", "Z")
                    [] e \in {"b", "B", "w", "W", "x", "u", "U", "N"} \/ IsAsciiDigit(e) ->
                          Token("outside", "")
                    [] e \in DOMAIN ESCAPES \ {"b"} -> Token("literal", ESCAPES[e])
                    [] IsAsciiLetter(e)
                         /\ e \notin {"d", "D", "s", "S", "A", "Z", "b", "B", "w", "W",
                                      "x", "u", "U", "N"} \cup DOMAIN ESCAPES ->
                          Token("error", "")
                    [] ~IsAsciiLetter(e) /\ ~IsAsciiDigit(e) /\ e # "\\" ->
                          Token("literal", e),
                  i + 2)

\* _parser._class_escape: the escape '\' e inside a character set.
_class_escape(e) ==
    CASE e \in DOMAIN ESCAPES -> Item("literal", ESCAPES[e], "")
      [] e \in {"d", "D", "s", "S"} -> Item("category", e, "")
      [] e \in {"w", "W", "x", "u", "U", "N", "0", "1", "2", "3", "4", "5", "6", "7"} ->
            Item("outside", "", "")
      [] e \in {"8", "9"}
           \/ (IsAsciiLetter(e)
                 /\ e \notin {"d", "D", "s", "S", "w", "W", "x", "u", "U", "N"}
                             \cup DOMAIN ESCAPES) ->
            Item("error", "", "")
      [] ~IsAsciiLetter(e) /\ ~IsAsciiDigit(e) /\ e # "\\" -> Item("literal", e, "")

\* One member of a character set, read at pat[j].
ClassItemAt(pat, j) ==
    IF pat[j] # "\\" THEN [item |-> Item("literal", pat[j], ""), next |-> j + 1]
    ELSE IF j = Len(pat) THEN [item |-> Item("error", "", ""), next |-> j + 1]
    ELSE [item |-> _class_escape(pat[j + 1]), next |-> j + 2]

\* The '[' branch of _parser._parse from pat[j] on: the set ends at the first
\* ']' that is not its first member (ClassItems); after the member one,
\* 'one-two' is a range when both ends are literals, and a '-' before the
\* closing ']' is a literal (ClassMember, ClassRange).
RECURSIVE ClassItems(_, _, _, _)
ClassRange(pat, neg, items, one, two) ==
    IF two.item.k \in {"error", "outside"} THEN Read(Token(two.item.k, ""), two.next)
    ELSE IF one.item.k # "literal" \/ two.item.k # "literal"
    THEN Read(Token("error", ""), two.next)
    ELSE IF ~IsAscii(one.item.c) \/ ~IsAscii(two.item.c)
    THEN Read(Token("outside", ""), two.next)
    ELSE IF Ord[two.item.c] < Ord[one.item.c] THEN Read(Token("error", ""), two.next)
    ELSE ClassItems(pat, two.next, neg, Append(items, Item("range", one.item.c, two.item.c)))
ClassMember(pat, neg, items, one) ==
    IF one.item.k \in {"error", "outside"} THEN Read(Token(one.item.k, ""), one.next)
    ELSE IF one.next > Len(pat) \/ pat[one.next] # "-"
    THEN ClassItems(pat, one.next, neg, Append(items, one.item))
    ELSE IF one.next = Len(pat) THEN Read(Token("error", ""), one.next + 1)
    ELSE IF pat[one.next + 1] = "]"
    THEN Read(SetToken(neg, items \o <<one.item, Item("literal", "-", "")>>), one.next + 2)
    ELSE ClassRange(pat, neg, items, one, ClassItemAt(pat, one.next + 1))
ClassItems(pat, j, neg, items) ==
    IF j > Len(pat) THEN Read(Token("error", ""), j)
    ELSE IF pat[j] = "]" /\ items # <<>> THEN Read(SetToken(neg, items), j + 1)
    ELSE ClassMember(pat, neg, items, ClassItemAt(pat, j))

\* A quantifier of lo to hi times whose text ends before pat[j]: a '?' there
\* makes it lazy, which finds a match in the same texts; a '+' makes it
\* possessive.
Repeat(pat, j, lo, hi) ==
    LET tok == [Token("repeat", "") EXCEPT !.lo = lo, !.hi = hi]
    IN  IF j <= Len(pat) /\ pat[j] = "?" THEN Read(tok, j + 1)
        ELSE IF j <= Len(pat) /\ pat[j] = "+"
        THEN Read([tok EXCEPT !.c = "possessive"], j + 1)
        ELSE Read(tok, j)

RECURSIVE DigitRun(_, _)
DigitRun(pat, j) ==
    IF j <= Len(pat) /\ IsAsciiDigit(pat[j]) THEN 1 + DigitRun(pat, j + 1) ELSE 0

\* The '{' branch of _parser._parse: '{lo}', '{lo,}', '{,hi}', '{lo,hi}' is a
\* quantifier, any other '{' is a literal.  lo and hi are the digits read,
\* and pat[hi_end] is the character after them.
BracesCount(pat, i, lo, hi, hi_end) ==
    IF hi_end > Len(pat) \/ pat[hi_end] # "}" THEN Read(Token("literal", "{"), i + 1)
    ELSE IF Len(lo) > 9 \/ Len(hi) > 9 THEN Read(Token("outside", ""), hi_end + 1)
    ELSE IF hi # <<>> /\ lo # <<>> /\ DigitsValue(hi) < DigitsValue(lo)
    THEN Read(Token("error", ""), hi_end + 1)
    ELSE Repeat(pat, hi_end + 1, IF lo = <<>> THEN 0 ELSE DigitsValue(lo),
                IF hi = <<>> THEN -1 ELSE DigitsValue(hi))
BracesMax(pat, i, lo_end, hi_len) ==
    BracesCount(pat, i, SubSeq(pat, i + 1, lo_end - 1),
                SubSeq(pat, lo_end + 1, lo_end + hi_len), lo_end + 1 + hi_len)
BracesMin(pat, i, lo_end) ==
    IF lo_end <= Len(pat) /\ pat[lo_end] = ","
    THEN BracesMax(pat, i, lo_end, DigitRun(pat, lo_end + 1))
    ELSE BracesCount(pat, i, SubSeq(pat, i + 1, lo_end - 1),
                     SubSeq(pat, i + 1, lo_end - 1), lo_end)
Braces(pat, i) ==
    IF i < Len(pat) /\ pat[i + 1] = "}" THEN Read(Token("literal", "{"), i + 1)
    ELSE BracesMin(pat, i, i + 1 + DigitRun(pat, i + 1))

\* The '(' branch of _parser._parse: a capturing group or '(?:'.
GroupOpen(pat, i) ==
    IF i = Len(pat) \/ pat[i + 1] # "?" THEN Read(Token("open", ""), i + 1)
    ELSE IF i + 1 = Len(pat) THEN Read(Token("error", ""), i + 2)
    ELSE IF pat[i + 2] = ":" THEN Read(Token("open", ""), i + 3)
    ELSE IF pat[i + 2] \in {"P", "#", "=", "!", "<", "(", ">", "-",
                            "a", "i", "L", "m", "s", "t", "u", "x"}
    THEN Read(Token("outside", ""), i + 3)
    ELSE Read(Token("error", ""), i + 3)

\* The token that starts at pat[i], and where the next one starts.
TokenAt(pat, i) ==
    LET c == pat[i]
    IN  CASE c = "\\" -> _escape(pat, i)
          [] c = "[" -> ClassItems(pat, IF i < Len(pat) /\ pat[i + 1] = "^" THEN i + 2 ELSE i + 1,
                                   i < Len(pat) /\ pat[i + 1] = "^", <<>>)
          [] c = "(" -> GroupOpen(pat, i)
          [] c = ")" -> Read(Token("close", ""), i + 1)
          [] c = "|" -> Read(Token("or", ""), i + 1)
          [] c = "." -> Read(Token("any", ""), i + 1)
          [] c \in {"^", "$"} -> Read(Token("at", c), i + 1)
          [] c \in {"*", "+", "?"} ->
                Repeat(pat, i + 1, IF c = "+" THEN 1 ELSE 0, IF c = "?" THEN 1 ELSE -1)
          [] c = "{" -> Braces(pat, i)
          [] OTHER -> Read(Token("literal", c), i + 1)

\* The tokens of pat up to the first the parser stops at.
RECURSIVE TokensFrom(_, _)
TokensAfter(pat, r) ==
    IF r.tok.k \in {"error", "outside"} THEN <<r.tok>>
    ELSE <<r.tok>> \o TokensFrom(pat, r.next)
TokensFrom(pat, i) == IF i > Len(pat) THEN <<>> ELSE TokensAfter(pat, TokenAt(pat, i))
Tokens(pat) == TokensFrom(pat, 1)

\* The number of groups open after the first j tokens.
Depth(toks, j) ==
    Cardinality({p \in 1..j : toks[p].k = "open"})
        - Cardinality({p \in 1..j : toks[p].k = "close"})

\* _parser.parse on the tokens: "ok" when the pattern compiles, "error" when
\* it raises re.error: on a token it cannot read, a quantifier with nothing
\* to repeat (first in its branch, or after a position) or after another
\* quantifier, a ')' that closes nothing, a '(' left open.
parse(toks) ==
    LET Fails(i) ==
            \/ toks[i].k = "error"
            \/ toks[i].k = "repeat" /\ (i = 1 \/ toks[i - 1].k \in {"open", "or", "at", "repeat"})
            \/ toks[i].k = "close" /\ Depth(toks, i - 1) = 0
        Unmodelled(i) ==
            toks[i].k = "outside" \/ (toks[i].k = "repeat" /\ toks[i].c = "possessive")
        stops == {i \in 1..Len(toks) : Fails(i) \/ Unmodelled(i)}
        first == CHOOSE i \in stops : \A j \in stops : i <= j
    IN  IF stops # {} THEN (IF Fails(first) THEN "error" ELSE "outside")
        ELSE IF Depth(toks, Len(toks)) > 0 THEN "error"
        ELSE "ok"

\* re.compile(pat, re.IGNORECASE): the pattern object (state "ok"), or
\* re.error raised (state "error").
Pattern(toks) == [state |-> parse(toks), toks |-> toks]
re_compile(pat) == Pattern(Tokens(pat))

\* The characters \s matches: str.isspace.
Space == Whitespace \cup {"U+001C", "U+001D", "U+001E", "U+001F"}

\* Whether a member of a character set takes character c, ignoring case.
ItemMatches(it, c) ==
    CASE it.k = "literal" -> IgnoreCaseChar(it.c) = IgnoreCaseChar(c)
      [] it.k = "range" ->
            \E o \in Ord[it.c]..Ord[it.c2] : IgnoreCaseChar(Ascii[o + 1]) = IgnoreCaseChar(c)
      [] it.k = "category" ->
            CASE it.c = "d" -> IsDigit(c) [] it.c = "D" -> ~IsDigit(c)
              [] it.c = "s" -> c \in Space [] it.c = "S" -> c \notin Space

\* Whether a token that takes one character takes c.
CharMatches(tok, c) ==
    CASE tok.k = "literal" -> IgnoreCaseChar(tok.c) = IgnoreCaseChar(c)
      [] tok.k = "any" -> c # "\n"
      [] tok.k = "in" ->
            tok.neg # (\E n \in 1..Len(tok.items) : ItemMatches(tok.items[n], c))

\* The positions of text (0..Len(text), counting the characters before) where
\* a match of one token can end when it starts at a position of S.
Step(tok, text, S) ==
    IF tok.k = "at"
    THEN CASE tok.c = "^" -> S \cap {0}
           [] tok.c = "Z" -> S \cap {Len(text)}
           [] tok.c = "$" ->
                 {p \in S : p = Len(text) \/ (p = Len(text) - 1 /\ text[Len(text)] = "\n")}
    ELSE {p + 1 : p \in {s \in S : s < Len(text) /\ CharMatches(tok, text[s + 1])}}

\* The token that closes the group opened by token a.
Closing(toks, a) ==
    CHOOSE e \in (a + 1)..Len(toks) :
        /\ Depth(toks, e) = Depth(toks, a - 1)
        /\ \A f \in (a + 1)..(e - 1) : Depth(toks, f) # Depth(toks, a - 1)

\* A count of repetitions; more of them than the text has characters add no
\* new end of a match.
Capped(count, text) ==
    IF count = -1 \/ count > Len(text) + 1 THEN Len(text) + 1 ELSE count

\* Where matches of the tokens a..b can end when they start at a position of
\* S: of their branches (Alternatives), of one branch (Sequence: its first
\* item is the tokens a..e, Quantified when a quantifier follows), of an item
\* repeated lo to hi times of which k are done (Repeated), of one item (Once).
RECURSIVE Alternatives(_, _, _, _, _), Sequence(_, _, _, _, _)
RECURSIVE Repeated(_, _, _, _, _, _, _, _), Once(_, _, _, _, _)
Quantified(toks, text, a, e, b, S) ==
    IF e < b /\ toks[e + 1].k = "repeat"
    THEN Sequence(toks, text, e + 2, b,
                  Repeated(toks, text, a, e, Capped(toks[e + 1].lo, text),
                           Capped(toks[e + 1].hi, text), 0, S))
    ELSE Sequence(toks, text, e + 1, b, Once(toks, text, a, e, S))
Alternatives(toks, text, a, b, S) ==
    LET bars == {p \in a..b : toks[p].k = "or" /\ Depth(toks, p - 1) = Depth(toks, a - 1)}
        bar == CHOOSE p \in bars : \A r \in bars : p <= r
    IN  IF bars = {} THEN Sequence(toks, text, a, b, S)
        ELSE Sequence(toks, text, a, bar - 1, S) \cup Alternatives(toks, text, bar + 1, b, S)
Sequence(toks, text, a, b, S) ==
    IF a > b THEN S
    ELSE Quantified(toks, text, a, IF toks[a].k = "open" THEN Closing(toks, a) ELSE a, b, S)
Repeated(toks, text, a, e, lo, hi, k, S) ==
    (IF k >= lo THEN S ELSE {})
        \cup (IF k >= hi \/ S = {} THEN {}
              ELSE Repeated(toks, text, a, e, lo, hi, k + 1, Once(toks, text, a, e, S)))
Once(toks, text, a, e, S) ==
    IF toks[a].k = "open" THEN Alternatives(toks, text, a + 1, e - 1, S)
    ELSE Step(toks[a], text, S)

\* pattern.search(text) is not None.
search(pattern, text) ==
    Alternatives(pattern.toks, text, 1, Len(pattern.toks), 0..Len(text)) # {}

\* One element of Series.str.contains; na=False makes a missing cell False.
str_contains(cell, pattern) == cell.t = "str" /\ search(pattern, cell.s)

\* The .str accessor needs a column of object type: a column with a text in
\* it, or a table without rows.  A column of missing values and numbers only
\* is float64 (int64) in the table as read, whatever rows a mask keeps of it,
\* and .str raises AttributeError on it.
HasStrAccessor(frame, col) ==
    frame = <<>> \/ \E i \in 1..Len(frame) : frame[i][col].t \in {"str", "none"}

(***************************************************************************)
(* pd.to_datetime(..., dayfirst=True, errors='coerce') on one cell.  The   *)
(* model covers the texts                                                  *)
(*   D.M.Y and Y.M.D, with '.', '/', '-' or a blank between the numbers,   *)
(*   and these followed by a blank and HH:MM or HH:MM:SS (of Y.M.D only    *)
(*   the texts that every version of pandas reads as the same day);        *)
(*   YYYY-MM-DD followed by 'T' and HH:MM or HH:MM:SS;                     *)
(*   M/Y and Y/M with '/' or '-', M Y with a blank, M.Y with a point;      *)
(*   D Mon YYYY, Mon D YYYY and Mon D, YYYY with an English month name;    *)
(*   YYYYMMDD and YYYY;                                                    *)
(*   texts without any digit, which are no dates (NaT);                    *)
(* numbers (nanoseconds since 1970-01-01), dates and missing values.       *)
(* Other texts (time zones, fractions of a second, AM/PM, 'now', ...) have *)
(* no value in the model.  A column holds one notation: pandas may fix the *)
(* format of a column from its first date, which makes no difference then. *)
(* A Timestamp is the cell "ts" with n = YYYYMMDD, d - 1 the second of the *)
(* day (d = 1 is midnight) and s the nanoseconds of that second in nine    *)
(* digits (empty for none).                                                *)
(***************************************************************************)
NaT == Cell("nat", <<>>, 0, 1)
Timestamp(y, m, d) == Cell("ts", <<>>, y * 10000 + m * 100 + d, 1)
Date(y, m, d) == Cell("date", <<>>, y * 10000 + m * 100 + d, 1)

\* st.date_input without a value starts at the day of the run.
Today == Date(2024, 2, 1)

IsLeap(y) == (y % 4 = 0 /\ y % 100 # 0) \/ y % 400 = 0
DaysInMonth(y, m) ==
    IF m = 2 THEN (IF IsLeap(y) THEN 29 ELSE 28)
    ELSE IF m \in {4, 6, 9, 11} THEN 30 ELSE 31

AllDigits(s) == s # <<>> /\ \A i \in 1..Len(s) : IsAsciiDigit(s[i])

\* A calendar day that a nanosecond Timestamp can hold (1677-09-22 to
\* 2262-04-11).
ValidDay(y, m, d) ==
    /\ m \in 1..12 /\ d >= 1 /\ d <= DaysInMonth(y, m)
    /\ y * 10000 + m * 100 + d >= 16770922
    /\ y * 10000 + m * 100 + d <= 22620411
DayOrNaT(y, m, d) == IF ValidDay(y, m, d) THEN Timestamp(y, m, d) ELSE NaT

\* A year written with one or two digits is taken within 50 years of the
\* current one; a year written with more digits is taken as written.
YearOf(part) ==
    LET v == DigitsValue(part)
        this == Today.n \div 10000
        y == (this \div 100) * 100 + v
    IN  IF Len(part) > 2 THEN v
        ELSE IF y >= this + 50 THEN y - 100
        ELSE IF y < this - 50 THEN y + 100 ELSE y

\* Three numbers with the year first: year, month, day.  With dayfirst=True
\* the day may be read before the month when the third number can be a month,
\* and which of the two readings is taken differs between versions of pandas:
\* such a text has a value here only when both readings give the same day.
YearFirst(year, b, c) ==
    CASE c > 12 \/ b = c -> DayOrNaT(year, b, c)

\* Three numbers: the year first when the first part has more than two
\* digits or is above 31, else the day first, unless only the month-first
\* reading is possible.
ThreeNumbers(p, a, b, c) ==
    LET long == {i \in 1..3 : Len(p[i]) > 2}
    IN  IF Cardinality(long) > 1 \/ \E i \in 1..3 : Len(p[i]) > 4 THEN NaT
        ELSE IF Len(p[1]) > 2 \/ a > 31 THEN YearFirst(YearOf(p[1]), b, c)
        ELSE IF a > 12 \/ b <= 12 THEN DayOrNaT(YearOf(p[3]), b, a)
        ELSE DayOrNaT(YearOf(p[3]), a, b)
ThreeParts(p) == ThreeNumbers(p, DigitsValue(p[1]), DigitsValue(p[2]), DigitsValue(p[3]))

\* Two numbers, a month and a four-digit year: the first day of the month.
\* With a point between them the text is read as one number, not as a date.
TwoParts(p, mark) ==
    CASE Len(p[1]) <= 2 /\ Len(p[2]) = 4 /\ mark = "." -> NaT
      [] Len(p[1]) <= 2 /\ Len(p[2]) = 4 /\ mark \in {"/", "-", " "} ->
            DayOrNaT(DigitsValue(p[2]), DigitsValue(p[1]), 1)
      [] Len(p[1]) = 4 /\ Len(p[2]) <= 2 /\ mark \in {"/", "-"} ->
            DayOrNaT(DigitsValue(p[1]), DigitsValue(p[2]), 1)

OnePart(p) ==
    CASE Len(p) = 8 ->
            DayOrNaT(DigitsValue(SubSeq(p, 1, 4)), DigitsValue(SubSeq(p, 5, 6)),
                     DigitsValue(SubSeq(p, 7, 8)))
      [] Len(p) = 4 -> DayOrNaT(DigitsValue(p), 1, 1)

\* The English month names the date parser knows, in lower case.
Months ==
    <<{<<"j", "a", "n">>, <<"j", "a", "n", "u", "a", "r", "y">>},
     {<<"f", "e", "b">>, <<"f", "e", "b", "r", "u", "a", "r", "y">>},
     {<<"m", "a", "r">>, <<"m", "a", "r", "c", "h">>},
     {<<"a", "p", "r">>, <<"a", "p", "r", "i", "l">>},
     {<<"m", "a", "y">>},
     {<<"j", "u", "n">>, <<"j", "u", "n", "e">>},
     {<<"j", "u", "l">>, <<"j", "u", "l", "y">>},
     {<<"a", "u", "g">>, <<"a", "u", "g", "u", "s", "t">>},
     {<<"s", "e", "p">>, <<"s", "e", "p", "t">>, <<"s", "e", "p", "t", "e", "m", "b", "e", "r">>},
     {<<"o", "c", "t">>, <<"o", "c", "t", "o", "b", "e", "r">>},
     {<<"n", "o", "v">>, <<"n", "o", "v", "e", "m", "b", "e", "r">>},
     {<<"d", "e", "c">>, <<"d", "e", "c", "e", "m", "b", "e", "r">>}>>
IsMonth(w) == \E m \in 1..12 : AsciiLower(w) \in Months[m]
MonthOf(w) == CHOOSE m \in 1..12 : AsciiLower(w) \in Months[m]

\* A day of the month in one or two digits; a year in four.
IsDayNumber(w) == AllDigits(w) /\ Len(w) <= 2
IsYearNumber(w) == AllDigits(w) /\ Len(w) = 4
\* 'D,' for 'D' in 'Mon D, YYYY'.
WithoutComma(w) ==
    IF w # <<>> /\ w[Len(w)] = "," THEN SubSeq(w, 1, Len(w) - 1) ELSE w

\* The numbers of a date written with one kind of mark between them.
Marks == {".", "/", "-", " "}
IsNumbers(s, mark) ==
    /\ Positions(s, mark) # {}
    /\ \A i \in 1..Len(Split(s, mark)) : AllDigits(Split(s, mark)[i])
MarkOf(s) == CHOOSE mark \in Marks : IsNumbers(s, mark)

\* The day that the numbers p, written with mark between them, stand for.
FromNumbers(p, mark) ==
    CASE Len(p) = 3 -> ThreeParts(p)
      [] Len(p) = 2 -> TwoParts(p, mark)

\* The day that three words stand for: 'D Mon YYYY', 'Mon D YYYY' or
\* 'Mon D, YYYY'.
FromWords(w) ==
    CASE Len(w) = 3 /\ IsDayNumber(w[1]) /\ IsMonth(w[2]) /\ IsYearNumber(w[3]) ->
            DayOrNaT(DigitsValue(w[3]), MonthOf(w[2]), DigitsValue(w[1]))
      [] Len(w) = 3 /\ IsMonth(w[1]) /\ IsDayNumber(WithoutComma(w[2]))
           /\ IsYearNumber(w[3]) ->
            DayOrNaT(DigitsValue(w[3]), MonthOf(w[1]), DigitsValue(WithoutComma(w[2])))

\* The day a date text (without time of day) stands for.
FromMarked(s, mark) == FromNumbers(Split(s, mark), mark)
FromParts(s) ==
    CASE AllDigits(s) -> OnePart(s)
      [] \E mark \in Marks : IsNumbers(s, mark) -> FromMarked(s, MarkOf(s))
      [] OTHER -> FromWords(Split(s, " "))

\* The second of the day of HH:MM or HH:MM:SS, or -1 for an hour, minute or
\* second that does not exist.
IsTimeOfDay(s) ==
    /\ Len(Split(s, ":")) \in {2, 3}
    /\ \A i \in 1..Len(Split(s, ":")) :
          AllDigits(Split(s, ":")[i]) /\ Len(Split(s, ":")[i]) = 2
SecondOfDay(s) ==
    LET p == Split(s, ":")
        h == DigitsValue(p[1])
        m == DigitsValue(p[2])
        sec == IF Len(p) = 3 THEN DigitsValue(p[3]) ELSE 0
    IN  IF h > 23 \/ m > 59 \/ sec > 59 THEN -1 ELSE 3600 * h + 60 * m + sec

\* A date followed by a time of day: after a blank, or after 'T' when the
\* date is YYYY-MM-DD.
IsIsoDate(s) ==
    /\ IsNumbers(s, "-") /\ Len(Split(s, "-")) = 3
    /\ Len(Split(s, "-")[1]) = 4 /\ Len(Split(s, "-")[2]) = 2 /\ Len(Split(s, "-")[3]) = 2
CutOf(s) ==
    CHOOSE i \in 1..Len(s) :
        /\ s[i] \in {" ", "T"}
        /\ \A j \in (i + 1)..Len(s) : s[j] \notin {" ", "T"}
HasTimeOfDay(s) ==
    /\ Positions(s, ":") # {}
    /\ \E i \in 1..Len(s) : s[i] \in {" ", "T"}
    /\ IsTimeOfDay(SubSeq(s, CutOf(s) + 1, Len(s)))
    /\ \E mark \in {".", "/", "-"} :
          /\ IsNumbers(SubSeq(s, 1, CutOf(s) - 1), mark)
          /\ Len(Split(SubSeq(s, 1, CutOf(s) - 1), mark)) = 3
    /\ s[CutOf(s)] = "T" => IsIsoDate(SubSeq(s, 1, CutOf(s) - 1))

\* The Timestamp of a day at a second of the day.
AtSecond(day, sec) == IF day = NaT \/ sec = -1 THEN NaT ELSE [day EXCEPT !.d = 1 + sec]

\* The Timestamp of a text, blanks at both ends dropped; timed says whether
\* the text ends with a time of day.
DateAndTime(s, timed) ==
    CASE timed \/ Positions(s, ":") = {} ->
            AtSecond(FromParts(IF timed THEN SubSeq(s, 1, CutOf(s) - 1) ELSE s),
                     IF timed THEN SecondOfDay(SubSeq(s, CutOf(s) + 1, Len(s))) ELSE 0)
FromText(s) ==
    CASE \A i \in 1..Len(s) : ~IsDigit(s[i]) ->
            (CASE AsciiLower(s) \notin {<<"n", "o", "w">>, <<"t", "o", "d", "a", "y">>} -> NaT)
      [] OTHER -> DateAndTime(s, HasTimeOfDay(s))

\* A number is a count of nanoseconds since 1970-01-01.
EpochNs(k) ==
    LET sec == IF k >= 0 THEN k \div 1000000000 ELSE -1 - ((-k - 1) \div 1000000000)
        ns == k - sec * 1000000000
    IN  Cell("ts", IF ns = 0 THEN <<>> ELSE ZeroPad(NatText(ns), 9),
             IF sec >= 0 THEN 19700101 ELSE 19691231,
             1 + (IF sec >= 0 THEN sec ELSE 86400 + sec))

\* pd.to_datetime(cell, errors='coerce', dayfirst=True)
to_datetime(cell) ==
    CASE cell.t = "ts" -> cell
      [] cell.t = "date" -> Cell("ts", <<>>, cell.n, 1)
      [] cell.t = "int" -> EpochNs(cell.n)
      [] cell.t = "float" ->
            EpochNs(IF cell.n >= 0 THEN cell.n \div cell.d ELSE -((-cell.n) \div cell.d))
      [] cell.t = "str" -> FromText(Trimmed(cell.s))
      [] cell.t \in {"none", "nan", "nat"} -> NaT

\* Comparisons of Timestamps; any comparison with NaT is False.
Nanos(ts) == IF ts.s = <<>> THEN 0 ELSE DigitsValue(ts.s)
TsGe(a, b) ==
    /\ a.t = "ts" /\ b.t = "ts"
    /\ \/ a.n > b.n
       \/ a.n = b.n /\ a.d > b.d
       \/ a.n = b.n /\ a.d = b.d /\ Nanos(a) >= Nanos(b)
TsLe(a, b) ==
    /\ a.t = "ts" /\ b.t = "ts"
    /\ \/ a.n < b.n
       \/ a.n = b.n /\ a.d < b.d
       \/ a.n = b.n /\ a.d = b.d /\ Nanos(a) <= Nanos(b)

(***************************************************************************)
(* filter_data (lines 27-44)                                               *)
(***************************************************************************)
\* Python truthiness of a text argument (None and "" are false).
Truthy(arg) == arg.t = "str" /\ arg.s # <<>>

CategoryApplies(category) ==
    Truthy(category) /\ category.s # <<"A", "l", "l">>

KeywordApplies(keyword) ==
    Truthy(keyword) /\ Len(keyword.s) >= 3

\* One element of df['Country'] == country: texts are equal when they are the
\* same text, numbers when they are the same number; a missing value equals
\* nothing.
CountryIs(row, country) ==
    \/ row.Country.t = "str" /\ country.t = "str" /\ row.Country.s = country.s
    \/ IsNum(row.Country) /\ IsNum(country)
         /\ row.Country.n * country.d = country.n * row.Country.d

\* Lines 38-39: both date columns of a row become Timestamps.
ParseDates(row) ==
    [col \in DOMAIN row |->
        IF col \in {"Date_Start", "Date_End"} THEN to_datetime(row[col]) ELSE row[col]]

\* InWindow as an overlap test: the campaign and the window intersect.
InWindowOverlap(row, start, end) ==
    TsLe(row.Date_Start, end) /\ TsGe(row.Date_End, start)

\* Lines 40-43, for one row and the Timestamps of the two bounds.
InWindow(row, start, end) ==
    TsGe(row.Date_Start, start) /\ TsLe(row.Date_End, end)

\* The returned frame (exc = None), or the exception that escapes the call.
Returned(frame) == [exc |-> None, frame |-> frame]
Raised(name) == [exc |-> Raise(name), frame |-> <<>>]

\* Where the statements of filter_data have got to: frame is the table that
\* df_filtered names, source the table that the caller's df names, shared
\* tells whether the two names stand for one table object, and exc is the
\* exception that escaped (None for none).  At the return, frame is the
\* value returned and source what the call left of the caller's table.
Outcome(frame, source, shared) ==
    [exc |-> None, frame |-> frame, source |-> source, shared |-> shared]
Fails(sofar, name) == [sofar EXCEPT !.exc = Raise(name), !.frame = <<>>]

\* df_filtered = df_filtered[mask]: indexing with a mask builds a new table
\* and the name is bound to it; the table it named before is as it was.
Rebound(sofar, frame) == [sofar EXCEPT !.frame = frame, !.shared = FALSE]

\* df_filtered[col] = values: the column is written into the table object
\* that df_filtered names, which every other name of that object shows.
Assigned(sofar, frame) ==
    [sofar EXCEPT !.frame = frame, !.source = IF sofar.shared THEN frame ELSE @]

\* The rows of frame with a match of the pattern in one of the columns (the
\* masks of these columns joined with '|').
Matching(frame, cols, pattern) ==
    LET mask(r) == \E col \in cols : str_contains(r[col], pattern)
    IN  SelectSeq(frame, mask)

\* Line 28 with the rows of other countries dropped from df itself and
\* df_filtered another name of that table.
CountryFilterInPlace(table, country) ==
    LET mask(r) == CountryIs(r, country)
    IN  Outcome(SelectSeq(table, mask), SelectSeq(table, mask), TRUE)

\* Line 28: df[mask] builds a new table of the rows of the country and
\* .copy() a copy of it, which df_filtered names; df is not written.
CountryFilter(table, country) ==
    LET mask(r) == CountryIs(r, country)
    IN  Outcome(SelectSeq(table, mask), table, FALSE)

\* Lines 30-31, on the outcome so far; pattern is the category compiled.
CategoryFilter(sofar, table, category, pattern) ==
    IF sofar.exc # None \/ ~CategoryApplies(category) THEN sofar
    ELSE IF ~HasStrAccessor(table, "Category_name") THEN Fails(sofar, <<"AttributeError">>)
    ELSE CASE pattern.state = "error" -> Fails(sofar, <<"re.error">>)
           [] pattern.state = "ok" ->
                 Rebound(sofar, Matching(sofar.frame, {"Category_name"}, pattern))

\* Lines 33-36, on the outcome so far; pattern is the keyword compiled.
KeywordFilter(sofar, table, keyword, pattern) ==
    IF sofar.exc # None \/ ~KeywordApplies(keyword) THEN sofar
    ELSE IF ~HasStrAccessor(table, "Description") THEN Fails(sofar, <<"AttributeError">>)
    ELSE CASE pattern.state = "error" -> Fails(sofar, <<"re.error">>)
           [] pattern.state = "ok" ->
                 IF ~HasStrAccessor(table, "Campaign_name")
                 THEN Fails(sofar, <<"AttributeError">>)
                 ELSE Rebound(sofar, Matching(sofar.frame, {"Description", "Campaign_name"},
                                              pattern))

\* Lines 38-39: the two date columns of df_filtered are assigned.
DatesAssigned(sofar) ==
    Assigned(sofar, [i \in 1..Len(sofar.frame) |-> ParseDates(sofar.frame[i])])

\* Lines 40-43: the rows inside the window.
Windowed(sofar, start, end) ==
    LET mask(r) == InWindow(r, start, end)
    IN  Rebound(sofar, SelectSeq(sofar.frame, mask))

\* Lines 38-43, on the outcome so far; start and end are the Timestamps of
\* the bounds.
DateFilter(sofar, start, end) ==
    IF sofar.exc # None THEN sofar ELSE Windowed(DatesAssigned(sofar), start, end)

filter_data(frame, country, keyword, start_date, end_date, category) ==
    DateFilter(
        KeywordFilter(
            CategoryFilter(CountryFilter(frame, country), frame, category,
                           re_compile(category.s)),
            frame, keyword, re_compile(keyword.s)),
        to_datetime(start_date), to_datetime(end_date))

(***************************************************************************)
(* The category selector (lines 84-92)                                     *)
(***************************************************************************)
categories ==
    <<<<"W", "U+00E4", "s", "c", "h", "e", " ", "(", "D", "a", "m", "e",
        "n", "/", "H", "e", "r", "r", "e", "n", ")">>,
      <<"O", "u", "t", "d", "o", "o", "r", ",", " ", "S", "p", "o",
        "r", "t", " ", "(", "D", "a", "m", "e", "n", "/", "H", "e",
        "r", "r", "e", "n", ")">>,
      <<"F", "a", "s", "h", "i", "o", "n", ",", " ", "D", "O", "B",
        ",", " ", "D", "e", "s", "i", "g", "n", "e", "r", " ", "(",
        "D", "a", "m", "e", "n", ")">>,
      <<"H", "e", "r", "r", "e", "n", "b", "e", "k", "l", "e", "i",
        "d", "u", "n", "g">>,
      <<"A", "c", "c", "e", "s", "s", "o", "i", "r", "e", "s">>,
      <<"B", "a", "b", "y", "-", "/", "K", "i", "n", "d", "e", "r",
        "b", "e", "k", "l", "e", "i", "d", "u", "n", "g">>,
      <<"B", "a", "b", "y", "-", "/", "K", "i", "n", "d", "e", "r",
        "s", "c", "h", "u", "h", "e">>,
      <<"B", "a", "b", "y", "a", "u", "s", "s", "t", "a", "t", "t",
        "u", "n", "g">>,
      <<"B", "e", "a", "u", "t", "y", " ", "(", "P", "a", "r", "f",
        "u", "m", ",", " ", "P", "f", "l", "e", "g", "e", ",", " ",
        "K", "o", "s", "m", "e", "t", "i", "k", ")">>,
      <<"D", "e", "n", "i", "m", ",", " ", "C", "a", "s", "u", "a",
        "l", " ", "(", "D", "a", "m", "e", "n", "/", "H", "e", "r",
        "r", "e", "n", ")">>,
      <<"E", "r", "w", "a", "c", "h", "s", "e", "n", "e", "n", "s",
        "c", "h", "u", "h", "e">>,
      <<"H", "e", "i", "m", "t", "e", "x">>,
      <<"H", "o", "m", "e", " ", "a", "n", "d", " ", "L", "i", "v",
        "i", "n", "g">>,
      <<"K", "i", "n", "d", "e", "r", "h", "a", "r", "t", "w", "a",
        "r", "e", "n", " ", "(", "S", "i", "t", "z", "e", ",", " ",
        "W", "U+00E4", "g", "e", "n", ",", " ", "e", "t", "c", ".", ")">>,
      <<"M", "U+00F6", "b", "e", "l">>,
      <<"S", "c", "h", "m", "u", "c", "k">>,
      <<"S", "p", "i", "e", "l", "z", "e", "u", "g">>,
      <<"T", "e", "c", "h", "n", "i", "k">>,
      <<"T", "i", "e", "r", "b", "e", "d", "a", "r", "f">>,
      <<"T", "r", "a", "c", "h", "t">>>>

All == <<"A", "l", "l">>
\* st.selectbox("Select category:", ["All"] + categories)
CategoryOptions == {Str(All)} \cup {Str(categories[i]) : i \in 1..Len(categories)}

(***************************************************************************)
(* Rows                                                                    *)
(***************************************************************************)
MkRow(idx, country, category, description, campaign, date_start, date_end, demand) ==
    [idx |-> idx, Country |-> country, Category_name |-> category,
     Description |-> description, Campaign_name |-> campaign,
     Date_Start |-> date_start, Date_End |-> date_end, Demand |-> demand]

\* A frame's rows relabelled 0, 1, ... (the RangeIndex of a freshly read table).
Reindexed(rows) == [i \in 1..Len(rows) |-> [rows[i] EXCEPT !.idx = i - 1]]

\* All sequences over S of length lo..hi.
SeqsOf(S, lo, hi) == UNION {[1..k -> S] : k \in lo..hi}

DE == Str(<<"D", "E">>)
PL == Str(<<"P", "L">>)
Jan15 == Str(<<"1", "5", ".", "0", "1", ".", "2", "0", "2", "4">>)
Jan31 == Str(<<"3", "1", ".", "0", "1", ".", "2", "0", "2", "4">>)
Feb01 == Str(<<"0", "1", ".", "0", "2", ".", "2", "0", "2", "4">>)

(***************************************************************************)
(* Direct calls of the three functions: the arguments are drawn by the     *)
(* initial state, the action applies the function.  ret is <<>> until the  *)
(* call returned.  The script's own state is not used by these.            *)
(***************************************************************************)
AppIdle ==
    /\ file = None /\ selected_country = None /\ selected_category = None
    /\ campaign_filter = None /\ earlier_start_date = None /\ earlier_end_date = None
    /\ later_start_date = None /\ later_end_date = None /\ target_growth = 0
    /\ checkbox = <<>> /\ event = "none" /\ df = <<>>
    /\ earlier_filtered = <<>> /\ later_filtered = <<>>
    /\ earlier_selected_df = <<>> /\ later_selected_df = <<>>
    /\ executed = {} /\ message = None

(***************************************************************************)
(* clean_demand_column, applied once and again                             *)
(***************************************************************************)
MaxLen == 3
MaxPasses == 2
DemandAlphabet == {"0", "1", "5", ",", ".", "U+20AC", " ", "-", "a", "n", "i", "f"}
DemandExamples ==
    {<<"1", ".", "2", "3", "4", ",", "5", "6", " ", "U+20AC">>, <<"0", ",", "5">>, <<"a", "b", "c">>, <<"1", "2", ",", "5", "0">>, <<"1", ".", "0", "0", "0">>, <<"I", "n", "f", "i", "n", "i", "t", "y">>, <<"U+20AC", " ", "9", "9">>,
     <<"1", "2", "U+00A0", "U+20AC">>, <<"U+0661", "U+0662">>}
DemandTexts == SeqsOf(DemandAlphabet, 0, MaxLen) \cup DemandExamples
\* Cells as the table reader leaves them: text, or numbers when the whole
\* column is numeric, or NaN for an empty field.
DemandCells ==
    {Str(s) : s \in DemandTexts}
        \cup {NaN, None, Int_(100), Int_(-7), Float(25, 2), Float(100, 1), Float(1, 2)}

DemandRow(cell) == MkRow(0, DE, Str(<<"T", "e", "c", "h", "n", "i", "k">>), Str(<<"a", "b", "c">>), Str(<<"a", "b", "c">>), Jan15, Jan31, cell)

InitClean ==
    /\ call \in {[fn |-> "clean_demand_column", frame |-> <<DemandRow(c)>>] : c \in DemandCells}
    /\ ret = <<>>
    /\ AppIdle

Clean ==
    /\ Len(ret) < MaxPasses
    /\ ret' = Append(ret, clean_demand_column(IF ret = <<>> THEN call.frame ELSE ret[Len(ret)]))
    /\ UNCHANGED <<call, appVars>>

NextClean == Clean
SpecClean == InitClean /\ [][NextClean]_vars

\* The text parse_demand hands to float(): lines 18-19.
Cleaned(s) ==
    Replace(Replace(Replace(Replace(s, "U+20AC", <<>>), " ", <<>>), ".", <<>>), ",", <<".">>)

CleanIn == call.frame[1].Demand
CleanOut(pass) == ret[pass][1].Demand

\* C7: parse_demand never raises; a null input gives null; a text gives the
\* decimal number left after removing the currency sign, the spaces and the
\* thousands separators and turning the decimal comma into a point, when that
\* text is a number, and null for every text that is not a number (the empty
\* text, "abc" and every other alphabetic word).
C7_ParseDemandContract ==
    Len(ret) >= 1 =>
        /\ CleanOut(1).t # "raise"
        /\ isna(CleanIn) => CleanOut(1) = None
        /\ CleanIn.t = "str" =>
              IF IsDecimal(Unsigned(AsciiLower(Cleaned(CleanIn.s))))
              THEN CleanOut(1) = DecimalValue(SignOf(Cleaned(CleanIn.s)),
                                              Unsigned(AsciiLower(Cleaned(CleanIn.s))))
              ELSE isna(CleanOut(1))

\* Two numeric values are the same number (100 and 100.0 are).
NumEq(a, b) ==
    \/ isna(a) /\ isna(b)
    \/ a.t = "inf" /\ b.t = "inf" /\ a.n = b.n
    \/ IsNum(a) /\ IsNum(b) /\ a.n * b.d = b.n * a.d

\* C8: normalizing is idempotent: a value that is already a number (from a
\* previous pass or from the table reader) is left unchanged, a null stays
\* null, and a second pass over the column changes nothing.
C8_CleanIdempotent ==
    /\ Len(ret) >= 1 /\ IsNum(CleanIn) => NumEq(CleanOut(1), CleanIn)
    /\ Len(ret) >= 1 /\ isna(CleanIn) => isna(CleanOut(1))
    /\ Len(ret) >= 2 => NumEq(CleanOut(2), CleanOut(1))

(***************************************************************************)
(* estimate_demand on two selected frames                                  *)
(***************************************************************************)
MaxSelected == 2
DemandValues == {Float(100, 1), Float(200, 1), Float(1, 2), NaN}
GrowthValues == {-100, -50, 0, 10, 1000}
SelectedFrames ==
    {[i \in 1..Len(ds) |-> DemandRow(ds[i])] : ds \in SeqsOf(DemandValues, 0, MaxSelected)}

InitEstimate ==
    /\ call \in [fn : {"estimate_demand"}, earlier_df : SelectedFrames,
                 later_df : SelectedFrames, percentage : GrowthValues]
    /\ ret = <<>>
    /\ AppIdle

Estimate ==
    /\ ret = <<>>
    /\ ret' = <<estimate_demand(call.earlier_df, call.later_df, call.percentage)>>
    /\ UNCHANGED <<call, appVars>>

NextEstimate == Estimate
SpecEstimate == InitEstimate /\ [][NextEstimate]_vars

\* C1: the four-way precedence over the two period means (those of lines
\* 47-48), for every growth value: both present, the grown Earlier mean
\* averaged with the Later mean; only Earlier, the grown Earlier mean; only
\* Later, the Later mean unchanged; neither, None.
C1_Precedence ==
    ret # <<>> =>
        LET em == PeriodMean(call.earlier_df)
            lm == PeriodMean(call.later_df)
            grown == FMul(em, Float(100 + call.percentage, 100))
        IN  /\ em # None /\ lm # None => ret[1] = FDivInt(FAdd(grown, lm), 2)
            /\ em # None /\ lm = None => ret[1] = grown
            /\ em = None /\ lm # None => ret[1] = lm
            /\ em = None /\ lm = None => ret[1] = None

\* Negative growth: earlier mean 100, growth -50, later mean 100 give 75.
C1_Witness ==
    /\ ret # <<>>
    /\ call.percentage = -50
    /\ PeriodMean(call.earlier_df) = Float(100, 1)
    /\ PeriodMean(call.later_df) = Float(100, 1)
    /\ ret[1] = Float(75, 1)

(***************************************************************************)
(* filter_data on small tables                                             *)
(***************************************************************************)
MaxFilterRows == 2
MaxKeyword == 3
NoText == Str(<<>>)
Technik == Str(<<"T", "e", "c", "h", "n", "i", "k">>)
Garbage == Str(<<"n", "/", "a">>)

\* Date window calls: every window against tables of one or two rows with
\* every pair of date cells in one notation, and against one row with every
\* pair of dates in other notations.
DateCells == {Jan15, Jan31, Feb01, Garbage, NaN}
DateNotations ==
    {Str(<<"1", "5", " ", "J", "a", "n", " ", "2", "0", "2", "4">>),
     Str(<<"J", "a", "n", " ", "3", "1", ",", " ", "2", "0", "2", "4">>),
     Str(<<"2", "0", "2", "4", "-", "0", "1", "-", "1", "5", " ", "1", "0", ":", "3", "0", ":", "0", "0">>),
     Str(<<"2", "0", "2", "4", "-", "0", "1", "-", "3", "1", "T", "0", "0", ":", "0", "0", ":", "0", "0">>),
     Str(<<"3", "1", ".", "0", "1", ".", "2", "0", "2", "4", " ", "0", "0", ":", "0", "0">>),
     Str(<<"1", "5", " ", "0", "1", " ", "2", "0", "2", "4">>),
     Str(<<"1", "0", ".", "2", "0", "2", "4">>), Str(<<"0", "1", "/", "2", "0", "2", "4">>),
     Str(<<"2", "0", "2", "4", "0", "1", "3", "1">>), Str(<<"a", "b", "c">>)}
WindowDates == {Date(2024, 1, 15), Date(2024, 1, 31), Date(2024, 2, 1)}
DateRow(ds, de) ==
    MkRow(0, DE, Technik, Str(<<"a", "b", "c">>), Str(<<"a", "b", "c">>), ds, de, Float(100, 1))
DateRows == {DateRow(ds, de) : ds \in DateCells, de \in DateCells}
NotationRows == {DateRow(ds, de) : ds \in DateNotations, de \in DateNotations}
DateCalls ==
    [fn : {"filter_data"},
     frame : {Reindexed(rows) : rows \in SeqsOf(DateRows, 1, MaxFilterRows)}
                \cup {<<r>> : r \in NotationRows},
     country : {DE}, keyword : {NoText},
     start_date : WindowDates, end_date : WindowDates, category : {Str(All)}]

\* Country calls: a Country column of texts, of whole numbers, or of numbers
\* with a fraction or a missing value, and every such value asked for.
CountryColumns ==
    {{DE, PL, Str(<<"4", "9">>), NaN}, {Int_(49), Int_(50)}, {Float(49, 1), Float(99, 2), NaN}}
CountryFrames ==
    UNION {{Reindexed(<<[DateRow(Jan15, Jan31) EXCEPT !.Country = c1],
                        [DateRow(Jan15, Jan31) EXCEPT !.Country = c2]>>) :
               c1 \in cells, c2 \in cells} : cells \in CountryColumns}
CountryCalls ==
    [fn : {"filter_data"}, frame : CountryFrames,
     country : UNION CountryColumns \cup {None},
     keyword : {NoText}, start_date : {Date(2024, 1, 15)}, end_date : {Date(2024, 1, 31)},
     category : {Str(All)}]

\* Keyword calls: every keyword over a small alphabet, and some more, against
\* one row.
KeywordAlphabet == {"a", "b", "C", ".", "(", "|", "*"}
KeywordExamples ==
    {<<"s", "a", "l", "e">>, <<"S", "A", "L", "E">>, <<"(", "a", "b", ")">>, <<"a", "(", "b">>,
     <<"x", "y", "z">>, <<"c", "a", "f", "U+00E9">>, <<"a", "+", "b">>, <<"a", "b", "+">>,
     <<"a", "b", "c", "|", "x">>, <<"[", "a", "b", "c">>, <<"[", "(", "]", "b">>,
     <<"a", "\\", "(", "b">>, <<"a", "b", "\\">>, <<"a", "\\", ")">>, <<"\\", "d", "\\", "d">>,
     <<"a", ".", "{", "2", "}">>, <<"^", "a", "b", "c", "$">>,
     <<"[", "a", "-", "c", "]", "+", "z">>, <<"(", "?", ":", "x", "|", "s", ")", "a", "l", "e">>}
Keywords == {Str(s) : s \in SeqsOf(KeywordAlphabet, 0, MaxKeyword) \cup KeywordExamples}
Descriptions ==
    {Str(<<"S", "u", "m", "m", "e", "r", " ", "S", "A", "L", "E", " ", "e", "v", "e", "n", "t">>),
     Str(<<"a", "b", "c">>), Str(<<"a", ".", "c", " ", "a", "(", "b">>),
     Str(<<"C", "A", "F", "U+00C9">>), Str(<<"a", "+", "b">>),
     NaN}
CampaignNames == {Str(<<"A", "B", "B", "A">>), Str(<<"x", "y", "z">>), NaN}
KeywordRows ==
    {MkRow(0, DE, Technik, d, n, Jan15, Jan31, Float(100, 1)) :
        d \in Descriptions, n \in CampaignNames}
\* A row of another country, all of its cells of text: with it in the table
\* every text column is of object type.
TextRow == MkRow(0, PL, Technik, Str(<<"x", "y", "z">>), Str(<<"x", "y", "z">>), Jan15, Jan31, Float(100, 1))
KeywordCalls ==
    [fn : {"filter_data"},
     frame : {<<r>> : r \in KeywordRows} \cup {Reindexed(<<r, TextRow>>) : r \in KeywordRows},
     country : {DE}, keyword : Keywords,
     start_date : {Date(2024, 1, 15)}, end_date : {Date(2024, 1, 31)},
     category : {Str(All)}]

\* Category calls: every option of the selector against one row.
CategoryCells ==
    {Str(categories[i]) : i \in 1..Len(categories)}
        \cup {Str(IgnoreCase(categories[i])) : i \in 1..Len(categories)}
        \cup {Str(<<"W", "U+00E4", "s", "c", "h", "e", " ", "D", "a", "m", "e", "n", "/", "H", "e", "r", "r", "e", "n">>), Str(<<"S", "o", "n", "s", "t", "i", "g", "e", "s">>), NaN}
CategoryRows ==
    {MkRow(0, DE, c, Str(<<"a", "b", "c">>), Str(<<"a", "b", "c">>), Jan15, Jan31, Float(100, 1)) :
        c \in CategoryCells}
CategoryCalls ==
    [fn : {"filter_data"},
     frame : {<<r>> : r \in CategoryRows} \cup {Reindexed(<<r, TextRow>>) : r \in CategoryRows},
     country : {DE}, keyword : {NoText, Str(<<"a", "b", "c">>)},
     start_date : {Date(2024, 1, 15)}, end_date : {Date(2024, 1, 31)},
     category : CategoryOptions \cup {NoText, None}]

InitFilter ==
    /\ call \in DateCalls \cup CountryCalls \cup KeywordCalls \cup CategoryCalls
    /\ ret = <<>>
    /\ AppIdle

Filter ==
    /\ ret = <<>>
    /\ ret' = <<filter_data(call.frame, call.country, call.keyword,
                            call.start_date, call.end_date, call.category)>>
    /\ UNCHANGED <<call, appVars>>

NextFilter == Filter
SpecFilter == InitFilter /\ [][NextFilter]_vars

\* The index labels of a frame's rows.
Labels(frame) == {frame[i].idx : i \in 1..Len(frame)}
CallRows == {call.frame[i] : i \in 1..Len(call.frame)}

PassesCountry(r) == CountryIs(r, call.country)
PassesCategory(r) ==
    CategoryApplies(call.category) =>
        str_contains(r.Category_name, re_compile(call.category.s))
PassesKeyword(r) ==
    KeywordApplies(call.keyword) =>
        /\ re_compile(call.keyword.s).state = "ok"
        /\ \/ str_contains(r.Description, re_compile(call.keyword.s))
           \/ str_contains(r.Campaign_name, re_compile(call.keyword.s))
Parsable(cell) == to_datetime(cell).t = "ts"
\* Both dates parse, the start is at or after the first moment of the start
\* day and the end at or before the first moment of the end day.
WithinBounds(r) ==
    /\ Parsable(r.Date_Start) /\ Parsable(r.Date_End)
    /\ TsGe(to_datetime(r.Date_Start), to_datetime(call.start_date))
    /\ TsLe(to_datetime(r.Date_End), to_datetime(call.end_date))

\* The category or the keyword of the call cannot be searched for: it is no
\* regular expression, or a column it is searched in holds no text.
TextFilterFails ==
    \/ /\ CategoryApplies(call.category)
       /\ \/ ~HasStrAccessor(call.frame, "Category_name")
          \/ re_compile(call.category.s).state = "error"
    \/ /\ KeywordApplies(call.keyword)
       /\ \/ ~HasStrAccessor(call.frame, "Description")
          \/ ~HasStrAccessor(call.frame, "Campaign_name")
          \/ re_compile(call.keyword.s).state = "error"

\* C3: date containment, both bounds inclusive: whatever the date cells of
\* the table hold, the call raises nothing unless its category or keyword
\* cannot be searched for, and then a row is returned exactly when it passes
\* the other predicates, both of its dates parse, its start is on or after
\* the window start and its end on or before the window end; a row with an
\* unparsable date is in no result.
C3_DateContainment ==
    ret # <<>> /\ ~TextFilterFails =>
        /\ ret[1].exc = None
        /\ \A r \in CallRows :
              /\ r.idx \in Labels(ret[1].frame) <=>
                    PassesCountry(r) /\ PassesCategory(r) /\ PassesKeyword(r) /\ WithinBounds(r)
              /\ ~Parsable(r.Date_Start) \/ ~Parsable(r.Date_End) =>
                    r.idx \notin Labels(ret[1].frame)

\* A row ending exactly on the window end and starting exactly on the window
\* start is returned, next to a row with an unparsable date that is not.
C3_Witness ==
    /\ ret # <<>> /\ ret[1].exc = None
    /\ call.start_date = Date(2024, 1, 15) /\ call.end_date = Date(2024, 2, 1)
    /\ Len(call.frame) = 2
    /\ call.frame[1].Date_Start = Jan15 /\ call.frame[1].Date_End = Feb01
    /\ call.frame[2].Date_Start = Garbage
    /\ Labels(ret[1].frame) = {0}
    /\ ret[1].frame[1].Date_End = Timestamp(2024, 2, 1)

\* The keyword occurs in the cell's text as literal text, ignoring case.
LiteralContains(cell, kw) ==
    /\ cell.t = "str"
    /\ \E off \in 0..(Len(cell.s) - Len(kw)) :
          \A i \in 1..Len(kw) : IgnoreCaseChar(cell.s[off + i]) = IgnoreCaseChar(kw[i])

\* C5: a keyword shorter than 3 characters excludes no row; a longer one keeps
\* exactly the rows, among those passing the other predicates, whose
\* Description or Campaign name contains it as literal text, ignoring case;
\* for every keyword, punctuation included.
C5_KeywordLiteral ==
    ret # <<>> =>
        /\ ret[1].exc = None
        /\ \A r \in CallRows :
              r.idx \in Labels(ret[1].frame) <=>
                  /\ PassesCountry(r) /\ PassesCategory(r) /\ WithinBounds(r)
                  /\ Len(call.keyword.s) >= 3 =>
                        \/ LiteralContains(r.Description, call.keyword.s)
                        \/ LiteralContains(r.Campaign_name, call.keyword.s)

\* C6: with a category of the selector other than "All", a row whose
\* Category_name equals it, ignoring case, and which passes the country,
\* keyword and date predicates is returned; with "All" or no category no row
\* is excluded because of its category.
C6_CategoryExactMatch ==
    ret # <<>> =>
        \A r \in CallRows :
            PassesCountry(r) /\ PassesKeyword(r) /\ WithinBounds(r) =>
                /\ (/\ call.category \in CategoryOptions \ {Str(All)}
                    /\ r.Category_name.t = "str"
                    /\ IgnoreCase(r.Category_name.s) = IgnoreCase(call.category.s))
                      => ret[1].exc = None /\ r.idx \in Labels(ret[1].frame)
                /\ call.category \in {Str(All), NoText, None}
                      => ret[1].exc = None /\ r.idx \in Labels(ret[1].frame)

(***************************************************************************)
(* The script (lines 69-153).  Streamlit runs it from the top on every     *)
(* interaction: an upload, a widget edited, a checkbox toggled, the button *)
(* pressed.  Widgets keep their value between runs while they are drawn; a *)
(* widget that a run does not reach is forgotten and starts anew.          *)
(***************************************************************************)
\* The required columns without the two that only later versions read.
required_cols_core ==
    {"Country", "Description", "Date Start", "Date End", "Demand"}

required_cols ==
    {"Country", "Description", "Date Start", "Date End", "Demand",
     "Campaign name", "Category_name"}

\* df['Country'].dropna().unique().tolist()
RECURSIVE Unique(_)
Unique(s) ==
    IF s = <<>> THEN <<>>
    ELSE LET init == Unique(SubSeq(s, 1, Len(s) - 1))
             x == s[Len(s)]
         IN  IF \E i \in 1..Len(init) : init[i] = x THEN init ELSE Append(init, x)
country_list(frame) == Unique(SelectSeq(Column(frame, "Country"), IsPresent))

\* st.selectbox(label, options): the choice of the last run when there is one
\* among the options, else the first option, else None.  The widget is
\* another one when its options are not those of the last run, and has no
\* choice then (choice = None).
selectbox(options, choice) ==
    IF \E i \in 1..Len(options) : options[i] = choice THEN choice
    ELSE IF options # <<>> THEN options[1] ELSE None

\* key=f"earlier_{idx}", key=f"later_{idx}"
CheckboxKey(period, idx) == <<period, idx>>

\* The values a checkbox label is formatted from (lines 116 and 122).
RowLabel(row) ==
    <<row.Campaign_name, row.Description, row.Date_Start.n, row.Date_End.n, row.Demand>>

\* st.checkbox(label, value=True, key=...) for every row of a filtered frame:
\* the state kept under the key, True for a key that is new.  drawn holds the
\* rows whose checkboxes the last run drew.  A checkbox drawn again under its
\* key with another label keeps its state where Streamlit identifies a keyed
\* widget by its key alone (keyed), and is a new checkbox where the label is
\* part of the identity.
Relabelled(row, drawn) ==
    \E j \in 1..Len(drawn) : drawn[j].idx = row.idx /\ RowLabel(drawn[j]) # RowLabel(row)
Selections(period, frame, boxes, drawn, keyed) ==
    [k \in {CheckboxKey(period, frame[i].idx) : i \in 1..Len(frame)} |->
        LET row == frame[CHOOSE i \in 1..Len(frame) : frame[i].idx = k[2]]
        IN  IF k \in DOMAIN boxes /\ (keyed \/ ~Relabelled(row, drawn))
            THEN boxes[k] ELSE TRUE]

\* filtered.loc[[idx for idx, checked in selections.items() if checked]]
SelectedRows(period, frame, selections) ==
    LET checked(r) == selections[CheckboxKey(period, r.idx)]
    IN  SelectSeq(frame, checked)

Msg(kind, missing, estimation) ==
    [kind |-> kind, missing |-> missing, estimation |-> estimation]
NoMessage == Msg("none", {}, None)

\* Line 129: the test that guards the estimation.
NothingSelectedEither(earlier_sel, later_sel) == earlier_sel = <<>> \/ later_sel = <<>>
NothingSelected(earlier_sel, later_sel) == earlier_sel = <<>> /\ later_sel = <<>>

\* Lines 128-136: the body of `if st.button(...)`.
Calculate(earlier_sel, later_sel, growth) ==
    IF NothingSelected(earlier_sel, later_sel)
    THEN [executed |-> {}, message |-> Msg("no_selection", {}, None)]
    ELSE LET estimation == estimate_demand(earlier_sel, later_sel, growth)
         IN  [executed |-> {"estimate"},
              message |-> IF estimation = None
                          THEN Msg("unable", {}, None)
                          ELSE Msg("success", {}, estimation)]

DefaultGrowth == 0 - 100

Widgets(country, category, keyword, es, ee, ls, le, growth) ==
    [selected_country |-> country, selected_category |-> category,
     campaign_filter |-> keyword, earlier_start_date |-> es, earlier_end_date |-> ee,
     later_start_date |-> ls, later_end_date |-> le, target_growth |-> growth]
DefaultWidgets ==
    Widgets(None, Str(All), NoText, Today, Today, Today, Today, DefaultGrowth)

\* What a run leaves behind: the widget values w, the checkbox state, the
\* script's variables, the stages gone through and the message shown.
Finish(w, boxes, table, ef, lf, esel, lsel, stages, msg) ==
    /\ selected_country' = w.selected_country
    /\ selected_category' = w.selected_category
    /\ campaign_filter' = w.campaign_filter
    /\ earlier_start_date' = w.earlier_start_date
    /\ earlier_end_date' = w.earlier_end_date
    /\ later_start_date' = w.later_start_date
    /\ later_end_date' = w.later_end_date
    /\ target_growth' = w.target_growth
    /\ checkbox' = boxes
    /\ df' = table
    /\ earlier_filtered' = ef
    /\ later_filtered' = lf
    /\ earlier_selected_df' = esel
    /\ later_selected_df' = lsel
    /\ executed' = stages
    /\ message' = msg

CurrentWidgets ==
    Widgets(selected_country, selected_category, campaign_filter,
            earlier_start_date, earlier_end_date,
            later_start_date, later_end_date, target_growth)

\* Lines 107-136: both periods filtered, the checkboxes drawn and read, the
\* button handled.  Each name is bound once, as the script assigns it; the
\* second filter_data is handed df as the first one left it.
FilterAndSelect(w, boxes, cleaned, pressed) ==
    \E r1 \in {filter_data(cleaned, w.selected_country, w.campaign_filter,
                           w.earlier_start_date, w.earlier_end_date,
                           w.selected_category)} :
        IF r1.exc # None
        THEN Finish(w, <<>>, r1.source, <<>>, <<>>, <<>>, <<>>,
                    {"load", "clean", "filter"}, Msg("exception", {}, r1.exc))
        ELSE
    \E r2 \in {filter_data(r1.source, w.selected_country, w.campaign_filter,
                           w.later_start_date, w.later_end_date,
                           w.selected_category)} :
        IF r2.exc # None
        THEN Finish(w, <<>>, r2.source, r1.frame, <<>>, <<>>, <<>>,
                    {"load", "clean", "filter"}, Msg("exception", {}, r2.exc))
        ELSE
    \E keyed \in
            IF \/ \E i \in 1..Len(r1.frame) : Relabelled(r1.frame[i], earlier_filtered)
               \/ \E i \in 1..Len(r2.frame) : Relabelled(r2.frame[i], later_filtered)
            THEN BOOLEAN ELSE {TRUE} :
    \E earlier_selections \in
            {Selections("earlier", r1.frame, boxes, earlier_filtered, keyed)} :
    \E later_selections \in
            {Selections("later", r2.frame, boxes, later_filtered, keyed)} :
    \E esel \in {SelectedRows("earlier", r1.frame, earlier_selections)} :
    \E lsel \in {SelectedRows("later", r2.frame, later_selections)} :
    \E calc \in {IF pressed THEN Calculate(esel, lsel, w.target_growth)
                 ELSE [executed |-> {}, message |-> NoMessage]} :
        Finish(w,
               [k \in DOMAIN earlier_selections \cup DOMAIN later_selections |->
                   IF k \in DOMAIN later_selections
                   THEN later_selections[k] ELSE earlier_selections[k]],
               r2.source, r1.frame, r2.frame, esel, lsel,
               {"load", "clean", "filter", "select"} \cup calc.executed,
               calc.message)

\* The widgets are on the page: a file is loaded and has the required columns.
WidgetsDrawn == "clean" \in executed
\* The checkboxes and the button are on the page: both filters returned.
ButtonDrawn == "select" \in executed

\* What the uploader holds: nothing, a file that cannot be read as a table,
\* or a table with its columns and rows.
NoFile == [kind |-> "none", columns |-> {}, rows |-> <<>>]
Unreadable == [kind |-> "unreadable", columns |-> {}, rows |-> <<>>]
Table(columns, rows) == [kind |-> "table", columns |-> columns, rows |-> rows]

\* load_data (lines 6-11): the table, or the exception of chardet or read_csv.
load_data(uploaded_file) ==
    IF uploaded_file.kind = "table" THEN Returned(uploaded_file.rows)
    ELSE Raised(<<"Exception">>)

\* One run of the script (lines 73-153) with f in the uploader, the widget
\* values w and the checkbox state boxes; ev is "button" when the run was
\* started by the button, "rerun" otherwise.  A run that does not reach the
\* widgets leaves none of their state behind.
Rerun(ev, f, w, boxes) ==
    /\ event' = ev
    /\ file' = f
    /\ UNCHANGED callVars
    /\ IF f = NoFile
       THEN Finish(DefaultWidgets, <<>>, <<>>, <<>>, <<>>, <<>>, <<>>, {}, NoMessage)
       ELSE IF load_data(f).exc # None
       THEN Finish(DefaultWidgets, <<>>, <<>>, <<>>, <<>>, <<>>, <<>>, {},
                   Msg("exception", {}, load_data(f).exc))
       ELSE IF ~required_cols \subseteq f.columns
       THEN Finish(DefaultWidgets, <<>>, load_data(f).frame, <<>>, <<>>, <<>>, <<>>,
                   {"load"}, Msg("schema_error", required_cols \ f.columns, None))
       ELSE \E cleaned \in {clean_demand_column(load_data(f).frame)} :
            \E country \in
                    {selectbox(country_list(cleaned),
                               IF WidgetsDrawn /\ country_list(cleaned) = country_list(df)
                               THEN w.selected_country ELSE None)} :
                FilterAndSelect([w EXCEPT !.selected_country = country],
                                boxes, cleaned, ev = "button")

(***************************************************************************)
(* The inputs of the script                                                *)
(***************************************************************************)
MaxRows == 2
\* The rows an uploaded file is made of: a priced row of January, a row of today
\* whose Demand is no number, and a priced row of today of another country
\* and category.
RowPool ==
    <<MkRow(0, DE, Technik, Str(<<"a", "b", "c">>), Str(<<"A", "B", "B", "A">>), Jan15, Jan31,
            Str(<<"1", ".", "2", "3", "4", ",", "5", "0", " ", "U+20AC">>)),
      MkRow(0, DE, Technik, Str(<<"a", "b", "c">>), Str(<<"A", "B", "B", "A">>), Feb01, Feb01,
            Str(<<"a", "b", "c">>)),
      MkRow(0, PL, Str(<<"M", "U+00F6", "b", "e", "l">>), Str(<<"x", "y", "z">>), Str(<<"x", "y", "z">>), Feb01, Feb01,
            Str(<<"2", "0", "0">>))>>
\* Tables of one to MaxRows different pool rows, in pool order.
Tables ==
    {Reindexed([i \in 1..Len(ix) |-> RowPool[ix[i]]]) :
        ix \in {s \in SeqsOf(1..Len(RowPool), 1, MaxRows) :
                    \A i \in 1..(Len(s) - 1) : s[i] < s[i + 1]}}
\* Files: every table with all the columns, one table under each set of
\* columns that lacks some, and a file that is no table.
ColumnSets ==
    {required_cols \ {"Demand"}, required_cols \ {"Category_name", "Campaign name"}}
Files ==
    {Table(required_cols \cup {"Extra"}, rows) : rows \in Tables}
        \cup {Table(columns, Reindexed(<<RowPool[1]>>)) : columns \in ColumnSets}
        \cup {Unreadable}

CategoryChoices == {Str(All), Technik}
KeywordChoices == {NoText, Str(<<"a", "b", "+">>), Str(<<"(", "a", "b">>)}
StartChoices == {Date(2024, 1, 15), Today}
EndChoices == {Date(2024, 1, 31), Today}
GrowthChoices == {DefaultGrowth, 10}

Init ==
    /\ call = None /\ ret = <<>>
    /\ file = NoFile /\ event = "none"
    /\ selected_country = None /\ selected_category = Str(All)
    /\ campaign_filter = NoText
    /\ earlier_start_date = Today /\ earlier_end_date = Today
    /\ later_start_date = Today /\ later_end_date = Today
    /\ target_growth = DefaultGrowth
    /\ checkbox = <<>> /\ df = <<>>
    /\ earlier_filtered = <<>> /\ later_filtered = <<>>
    /\ earlier_selected_df = <<>> /\ later_selected_df = <<>>
    /\ executed = {} /\ message = NoMessage

\* A file is put into the uploader, at the start or in place of the file
\* that is there: the widgets drawn again keep their state.
Upload ==
    \E f \in Files : Rerun("rerun", f, CurrentWidgets, checkbox)

\* The file is taken out of the uploader: line 73 is false and the page is
\* empty again.
RemoveFile ==
    /\ file # NoFile
    /\ Rerun("rerun", NoFile, CurrentWidgets, checkbox)

SetCountry ==
    /\ WidgetsDrawn
    /\ \E i \in 1..Len(country_list(df)) :
          Rerun("rerun", file,
                [CurrentWidgets EXCEPT !.selected_country = country_list(df)[i]], checkbox)

SetCategory ==
    /\ WidgetsDrawn
    /\ \E c \in CategoryChoices :
          Rerun("rerun", file, [CurrentWidgets EXCEPT !.selected_category = c], checkbox)

SetKeyword ==
    /\ WidgetsDrawn
    /\ \E k \in KeywordChoices :
          Rerun("rerun", file, [CurrentWidgets EXCEPT !.campaign_filter = k], checkbox)

\* The four date inputs (lines 97, 98, 104 and 105) are widgets of their
\* own: each edit runs the script with the other three as they are.
SetEarlierStart ==
    /\ WidgetsDrawn
    /\ \E d \in StartChoices :
          Rerun("rerun", file, [CurrentWidgets EXCEPT !.earlier_start_date = d], checkbox)

SetEarlierEnd ==
    /\ WidgetsDrawn
    /\ \E d \in EndChoices :
          Rerun("rerun", file, [CurrentWidgets EXCEPT !.earlier_end_date = d], checkbox)

SetLaterStart ==
    /\ WidgetsDrawn
    /\ \E d \in StartChoices :
          Rerun("rerun", file, [CurrentWidgets EXCEPT !.later_start_date = d], checkbox)

SetLaterEnd ==
    /\ WidgetsDrawn
    /\ \E d \in EndChoices :
          Rerun("rerun", file, [CurrentWidgets EXCEPT !.later_end_date = d], checkbox)

SetGrowth ==
    /\ WidgetsDrawn
    /\ \E g \in GrowthChoices :
          Rerun("rerun", file, [CurrentWidgets EXCEPT !.target_growth = g], checkbox)

ToggleEarlier ==
    /\ ButtonDrawn
    /\ \E i \in 1..Len(earlier_filtered) :
          LET k == CheckboxKey("earlier", earlier_filtered[i].idx)
          IN  Rerun("rerun", file, CurrentWidgets,
                    [checkbox EXCEPT ![k] = ~checkbox[k]])

ToggleLater ==
    /\ ButtonDrawn
    /\ \E i \in 1..Len(later_filtered) :
          LET k == CheckboxKey("later", later_filtered[i].idx)
          IN  Rerun("rerun", file, CurrentWidgets,
                    [checkbox EXCEPT ![k] = ~checkbox[k]])

PressCalculate ==
    /\ ButtonDrawn
    /\ Rerun("button", file, CurrentWidgets, checkbox)

Next ==
    \/ Upload
    \/ RemoveFile
    \/ SetCountry
    \/ SetCategory
    \/ SetKeyword
    \/ SetEarlierStart
    \/ SetEarlierEnd
    \/ SetLaterStart
    \/ SetLaterEnd
    \/ SetGrowth
    \/ ToggleEarlier
    \/ ToggleLater
    \/ PressCalculate

Spec == Init /\ [][Next]_vars

\* C4: a table lacking a required column gives the schema error naming
\* exactly the missing columns, and the run stops there: Demand is not
\* normalized, nothing is filtered, selected or estimated; a table with all
\* seven columns gives no schema error.
C4_SchemaHalts ==
    event # "none" /\ file.kind = "table" =>
        LET missing == {"Country", "Description", "Date Start", "Date End", "Demand",
                        "Campaign name", "Category_name"} \ file.columns
        IN  /\ missing # {} =>
                  /\ message = Msg("schema_error", missing, None)
                  /\ executed \cap {"clean", "filter", "select", "estimate"} = {}
                  /\ df = file.rows
                  /\ earlier_filtered = <<>> /\ later_filtered = <<>>
                  /\ earlier_selected_df = <<>> /\ later_selected_df = <<>>
            /\ missing = {} => message.kind # "schema_error"

\* A table with rows but without Demand was uploaded and rejected.
C4_Witness ==
    /\ file.rows # <<>>
    /\ file.columns = required_cols \ {"Demand"}
    /\ message = Msg("schema_error", {"Demand"}, None)

\* A period's mean is absent: no selected row, or only rows with null Demand.
AbsentMean(frame) == \A i \in 1..Len(frame) : isna(frame[i].Demand)

\* C2: pressing the button with both selections empty or all-null gives a
\* warning and no estimate; with one selection non-empty but all-null and the
\* other holding numbers, the estimate is that of the other period alone.
C2_NullMeansAbsent ==
    event = "button" =>
        /\ AbsentMean(earlier_selected_df) /\ AbsentMean(later_selected_df) =>
              message.kind \in {"unable", "no_selection"} /\ message.estimation = None
        /\ (/\ earlier_selected_df # <<>> /\ AbsentMean(earlier_selected_df)
            /\ ~AbsentMean(later_selected_df)) =>
              message = Msg("success", {}, SeriesMean(Column(later_selected_df, "Demand")))
        /\ (/\ later_selected_df # <<>> /\ AbsentMean(later_selected_df)
            /\ ~AbsentMean(earlier_selected_df)) =>
              message = Msg("success", {},
                            FMul(SeriesMean(Column(earlier_selected_df, "Demand")),
                                 Float(100 + target_growth, 100)))

\* A step in which the user toggles a checkbox of the period: the file and
\* the other widgets are as before and the state of a checkbox of that period
\* changed.
Toggled(period) ==
    /\ file' = file /\ CurrentWidgets' = CurrentWidgets
    /\ DOMAIN checkbox' = DOMAIN checkbox
    /\ \E k \in DOMAIN checkbox : k[1] = period /\ checkbox'[k] # checkbox[k]

\* The step leaves every checkbox of the period as it was.
BoxesKept(period) ==
    \A k \in DOMAIN checkbox : k[1] = period => checkbox'[k] = checkbox[k]

\* The Later period's rows had the Later filter been the only call, on the
\* cleaned table of the file.
LaterAlone ==
    filter_data(clean_demand_column(file.rows), selected_country, campaign_filter,
                later_start_date, later_end_date, selected_category)
\* The Earlier period's rows had the Later filter been called first, with the
\* window w, and the Earlier filter on the table it left.
EarlierSecond(w) ==
    filter_data(filter_data(clean_demand_column(file.rows), selected_country,
                            campaign_filter, w[1], w[2], selected_category).source,
                selected_country, campaign_filter, earlier_start_date, earlier_end_date,
                selected_category)

\* C9: after the two filter calls of a run the script's table df has the
\* rows, the Demand values and the raw date texts of the cleaned table, also
\* when a call raised; the Later period's rows are those of the Later filter
\* called alone, and the Earlier period's rows those of the Earlier filter
\* called after a Later one with any window; and toggling a checkbox of one
\* period changes neither the other period's checkboxes, nor its rows, nor
\* its selection.
C9_PeriodIndependence ==
    /\ [](WidgetsDrawn =>
            /\ Len(df) = Len(file.rows)
            /\ \A i \in 1..Len(df) :
                  /\ df[i].Demand = clean_demand_column(file.rows)[i].Demand
                  /\ \A col \in DOMAIN df[i] \ {"Demand"} : df[i][col] = file.rows[i][col])
    /\ [](ButtonDrawn =>
            /\ later_filtered = LaterAlone.frame
            /\ \A w \in StartChoices \X EndChoices :
                  earlier_filtered = EarlierSecond(w).frame)
    /\ [][Toggled("earlier") =>
            /\ BoxesKept("later")
            /\ later_filtered' = later_filtered
            /\ later_selected_df' = later_selected_df]_vars
    /\ [][Toggled("later") =>
            /\ BoxesKept("earlier")
            /\ earlier_filtered' = earlier_filtered
            /\ earlier_selected_df' = earlier_selected_df]_vars

\* The same source row is in both periods, deselected in the Earlier period
\* and still selected in the Later one; its dates are Timestamps in the
\* period's rows and texts in the table, which holds a row more.
C9_Witness ==
    /\ Len(df) > Len(earlier_filtered)
    /\ \E i \in 1..Len(earlier_filtered) :
          /\ earlier_filtered[i].idx \in Labels(later_selected_df)
          /\ earlier_filtered[i].idx \notin Labels(earlier_selected_df)
          /\ earlier_filtered[i].Date_Start.t = "ts"
          /\ df[1 + earlier_filtered[i].idx].Date_Start.t = "str"

\* C10: pressing the button while a period has no selected row (the Earlier
\* one, the Later one or both) gives the empty-selection warning.
C10_EmptySelectionReported ==
    event = "button" /\ (earlier_selected_df = <<>> \/ later_selected_df = <<>>) =>
        message.kind = "no_selection"

\* C10 as amended: pressing the button gives the empty-selection warning
\* exactly when both periods have no selected row; it is a warning, neither
\* the schema error nor an exception; with one period empty the run goes on
\* to the estimate.
C10_EmptySelectionBoth ==
    event = "button" =>
        /\ message.kind \in {"no_selection", "unable", "success"}
        /\ message.kind = "no_selection" <=>
              (earlier_selected_df = <<>> /\ later_selected_df = <<>>)

\* Every row of both periods deselected, then the button pressed.
C10_Witness ==
    /\ event = "button"
    /\ earlier_filtered # <<>> /\ later_filtered # <<>>
    /\ earlier_selected_df = <<>> /\ later_selected_df = <<>>
    /\ message.kind = "no_selection"
====
